---- MODULE Spec2Model ----
(***************************************************************************)
(* Model of the readmission-risk pipeline's feature engineering            *)
(* (pipeline/feature_engineering.py) and drift detection                   *)
(* (pipeline/monitor/drift.py).                                            *)
(*                                                                         *)
(* Numbers.  TLC has 32-bit integers only, so every float of the program   *)
(* is a fixed-point integer:                                               *)
(*   - a table cell is a number in units of 0.01 (150 is 1.50);            *)
(*   - a statistic of the drift report (ks_stat, ks_pvalue, psi) is a      *)
(*     number in units of 0.00001 (5000 is 0.05);                          *)
(*   - inside psi a smoothed proportion is kept to its leading order in    *)
(*     the smoothing constant eps = 1e-6 (see EpsNumber below), which is   *)
(*     exact to a relative error of about 1e-6.                            *)
(* A missing cell (NaN / None) is the value NaN.                           *)
(***************************************************************************)
EXTENDS Integers, Sequences, FiniteSets, TLC

\* ------------------------------------------------------------------ bounds
\* Rows of a table in the small-table inputs of detect_drift.
MaxRows == 2
\* Rows of a table in the one-column sample inputs of detect_drift.
MaxSample == 4
\* Number of detect_drift invocations that may overlap.
NCalls == 2

\* ------------------------------------------------------------ tables
\* The missing value (numpy NaN, Python None): a number no cell reaches.
NaN == -2000000000

Calls == 1..NCalls

\* pandas dtypes that select_dtypes(include=[np.number]) keeps.
NumericDtypes == {"int64", "float64"}

\* A table (DataFrame) is a sequence of columns, a column a record
\* [name, dtype, cells], cells a sequence with one value per row.
MkCol(name, dtype, cells) == [name |-> name, dtype |-> dtype, cells |-> cells]

ColNames(t) == {t[k].name : k \in DOMAIN t}

HasCol(t, name) == name \in ColNames(t)

\* df[name]: the column of that name.
GetCol(t, name) == t[CHOOSE k \in DOMAIN t : t[k].name = name]

\* Series.dropna(): the non-missing cells, in order.
DropNa(cells) == SelectSeq(cells, LAMBDA x : x # NaN)

\* df.select_dtypes(include=[np.number]).columns: the names of the numeric
\* columns, in column order.
RECURSIVE NumericCols(_)
NumericCols(t) ==
  IF t = << >> THEN << >>
  ELSE IF Head(t).dtype \in NumericDtypes
       THEN <<Head(t).name>> \o NumericCols(Tail(t))
       ELSE NumericCols(Tail(t))

RECURSIVE SumSeq(_)
SumSeq(s) == IF s = << >> THEN 0 ELSE Head(s) + SumSeq(Tail(s))

Abs(x) == IF x < 0 THEN -x ELSE x

SetMax(S) == CHOOSE x \in S : \A y \in S : y <= x

SetMin(S) == CHOOSE x \in S : \A y \in S : x <= y

SeqRange(s) == {s[k] : k \in DOMAIN s}

\* ------------------------------------------------- scipy.stats.ks_2samp
\* Number of elements of sample s that are <= v (n times the empirical CDF).
CountLe(s, v) == Cardinality({k \in DOMAIN s : s[k] <= v})

\* Mutant of KsNumerator: the second CDF counts the values below v only.
KsNumeratorStrict(a, b) ==
  SetMax({Abs(CountLe(a, v) * Len(b) - CountLe(b, v - 1) * Len(a)) :
            v \in SeqRange(a) \cup SeqRange(b)})

\* The two-sided KS statistic times len(a)*len(b): the largest difference of
\* the two empirical CDFs over all data points.
KsNumerator(a, b) ==
  SetMax({Abs(CountLe(a, v) * Len(b) - CountLe(b, v) * Len(a)) :
            v \in SeqRange(a) \cup SeqRange(b)})

\* Number of lattice paths from (0,0) to (i,j) on which every point (x,y)
\* has |x/n - y/m| < h/(n*m): the orderings of the pooled sample whose KS
\* statistic stays below the observed one (scipy's exact method).
RECURSIVE PathsInside(_, _, _, _, _)
PathsInside(i, j, n, m, h) ==
  IF Abs(i * m - j * n) >= h THEN 0
  ELSE IF i = 0 /\ j = 0 THEN 1
  ELSE (IF i > 0 THEN PathsInside(i - 1, j, n, m, h) ELSE 0)
       + (IF j > 0 THEN PathsInside(i, j - 1, n, m, h) ELSE 0)

RECURSIVE Binomial(_, _)
Binomial(n, k) ==
  IF k = 0 \/ k = n THEN 1 ELSE Binomial(n - 1, k - 1) + Binomial(n - 1, k)

\* Units of a report statistic: 1 is 0.00001.
StatOne == 100 * 1000

\* ks_2samp(a, b) for two non-empty samples: the statistic and the exact
\* two-sided p-value P(D >= d), in units of 0.00001.
Ks2Samp(a, b) ==
  LET n == Len(a)
      m == Len(b)
      h == KsNumerator(a, b)
      total == Binomial(n + m, n)
      inside == PathsInside(n, m, n, m, h)
  IN  [stat |-> (h * StatOne) \div (n * m),
       pvalue |-> IF h = 0 THEN StatOne
                  ELSE ((total - inside) * StatOne) \div total]

\* ---------------------------------------------------------------- psi
\* Number of buckets (the default of psi's parameter buckets).
Buckets == 10

\* Half a unit, in cell units: numpy widens an empty range [v, v] to
\* [v - 0.5, v + 0.5].
HalfUnit == 50

\* np.histogram(expected, bins=buckets): the bucket range, from the
\* reference sample alone.
BinRange(expected) ==
  LET lo == SetMin(SeqRange(expected))
      hi == SetMax(SeqRange(expected))
  IN  IF lo = hi THEN [lo |-> lo - HalfUnit, hi |-> hi + HalfUnit]
      ELSE [lo |-> lo, hi |-> hi]

\* The bucket (1..Buckets) of value x for equal-width edges over [lo, hi],
\* the last bucket closed on the right; 0 when x lies outside the range.
BucketOf(x, r) ==
  IF x < r.lo \/ x > r.hi THEN 0
  ELSE IF x = r.hi THEN Buckets
  ELSE ((x - r.lo) * Buckets) \div (r.hi - r.lo) + 1

\* np.histogram(sample, bins=edges): the count of each bucket.
Histogram(sample, r) ==
  [k \in 1..Buckets |->
     Cardinality({j \in DOMAIN sample : BucketOf(sample[j], r) = k})]

\* ln 2 and ln 1e-6 in units of 0.00001.
Ln2 == 69315

LnEps == -1381551

\* ln(a/b) in units of 0.00001 for integers a, b > 0: halving down to
\* [1, 2), then ln x = 2 atanh((x-1)/(x+1)) by its series.
RECURSIVE LnFixed(_, _)
LnFixed(a, b) ==
  IF a < b THEN -LnFixed(b, a)
  ELSE IF a >= 2 * b THEN Ln2 + LnFixed(a, 2 * b)
  ELSE LET z  == ((a - b) * StatOne) \div (a + b)
           z2 == (z * z) \div StatOne
           t3 == (z * z2) \div StatOne
           t5 == (t3 * z2) \div StatOne
           t7 == (t5 * z2) \div StatOne
           t9 == (t7 * z2) \div StatOne
       IN  2 * (z + t3 \div 3 + t5 \div 5 + t7 \div 7 + t9 \div 9)

\* A positive real kept to its leading order in eps = 1e-6:
\* (num/den) * eps^exp.
EpsNumber(num, den, exp) == [num |-> num, den |-> den, exp |-> exp]

\* (count + 1e-6) / (size + 1e-6).
SmoothedPercent(count, size) ==
  IF count = 0 THEN EpsNumber(1, size, 1) ELSE EpsNumber(count, size, 0)

\* expected_percent / actual_percent + 1e-6.
RatioPlusEps(e, a) ==
  LET num == e.num * a.den
      den == e.den * a.num
      exp == e.exp - a.exp
  IN  IF exp = 1 THEN EpsNumber(num + den, den, 1)
      ELSE EpsNumber(num, den, exp)

\* np.log of an EpsNumber, in units of 0.00001.
LogEps(r) == LnFixed(r.num, r.den) + r.exp * LnEps

\* (expected_percent - actual_percent) * log(...), in units of 0.00001.
PsiTerm(e, a) ==
  LET en == IF e.exp = 0 THEN e.num ELSE 0
      an == IF a.exp = 0 THEN a.num ELSE 0
  IN  ((en * a.den - an * e.den) * LogEps(RatioPlusEps(e, a)))
        \div (e.den * a.den)

\* Mutant of Psi: the bucket range taken from both samples together.
PsiPooledRange(expected, actual) ==
  LET r  == BinRange(expected \o actual)
      ec == Histogram(expected, r)
      ac == Histogram(actual, r)
  IN  SumSeq([k \in 1..Buckets |->
                PsiTerm(SmoothedPercent(ec[k], Len(expected)),
                        SmoothedPercent(ac[k], Len(actual)))])

\* psi(expected, actual) for two non-empty samples, in units of 0.00001.
Psi(expected, actual) ==
  LET r  == BinRange(expected)
      ec == Histogram(expected, r)
      ac == Histogram(actual, r)
  IN  SumSeq([k \in 1..Buckets |->
                PsiTerm(SmoothedPercent(ec[k], Len(expected)),
                        SmoothedPercent(ac[k], Len(actual)))])

\* ------------------------------------------------------- detect_drift
\* The thresholds of the decision rule, in units of 0.00001: 0.05 and 0.1.
KsAlpha == 5000

PsiLimit == 10000

\* Mutant of DriftDetected: the two signals joined by "and".
DriftDetectedBoth(ks_pvalue, psi_value) ==
  (ks_pvalue < KsAlpha) /\ (psi_value > PsiLimit)

\* drift_detected = (ks_pvalue < 0.05) or (psi_value > 0.1).
DriftDetected(ks_pvalue, psi_value) ==
  (ks_pvalue < KsAlpha) \/ (psi_value > PsiLimit)

\* The dict entry of one column: drift_report[col] = {...}.
ReportEntry(col, ref, cur) ==
  LET ks == Ks2Samp(ref, cur)
      psi_value == Psi(ref, cur)
  IN  [col |-> col,
       ks_stat |-> ks.stat,
       ks_pvalue |-> ks.pvalue,
       psi |-> psi_value,
       drift_detected |-> DriftDetected(ks.pvalue, psi_value)]

\* Mutant of DictSet: a new entry takes the psi of the entry before it.
DictSetCarrying(d, entry) ==
  IF d = << >> THEN <<entry>>
  ELSE Append(d, [entry EXCEPT !.psi = d[Len(d)].psi])

\* A dict is the sequence of its entries in insertion order, each entry
\* carrying its key in the field col.  d[key] = entry.
DictSet(d, entry) ==
  IF \E k \in DOMAIN d : d[k].col = entry.col
  THEN [k \in DOMAIN d |-> IF d[k].col = entry.col THEN entry ELSE d[k]]
  ELSE Append(d, entry)

Keys(d) == {d[k].col : k \in DOMAIN d}

Entry(d, key) == d[CHOOSE k \in DOMAIN d : d[k].col = key]

\* Mutant of ColumnStep: the guard asks for more than one value per side.
ColumnStepOffByOne(reference, current, col) ==
  IF ~HasCol(current, col) THEN [kind |-> "raise", error |-> "KeyError"]
  ELSE LET ref == DropNa(GetCol(reference, col).cells)
           cur == DropNa(GetCol(current, col).cells)
       IN  IF Len(ref) > 1 /\ Len(cur) > 1
           THEN IF GetCol(current, col).dtype \notin NumericDtypes
                THEN [kind |-> "raise", error |-> "TypeError"]
                ELSE [kind |-> "entry", entry |-> ReportEntry(col, ref, cur)]
           ELSE [kind |-> "skip"]

\* One iteration of the loop over numeric_cols: what the body does for
\* column col.  current_df[col] raises KeyError when the current table has
\* no such column; ks_2samp raises TypeError when the current column holds
\* non-numeric objects.
ColumnStep(reference, current, col) ==
  IF ~HasCol(current, col) THEN [kind |-> "raise", error |-> "KeyError"]
  ELSE LET ref == DropNa(GetCol(reference, col).cells)
           cur == DropNa(GetCol(current, col).cells)
       IN  IF Len(ref) > 0 /\ Len(cur) > 0
           THEN IF GetCol(current, col).dtype \notin NumericDtypes
                THEN [kind |-> "raise", error |-> "TypeError"]
                ELSE [kind |-> "entry", entry |-> ReportEntry(col, ref, cur)]
           ELSE [kind |-> "skip"]

\* json.dumps(drift_report, ...): one line of text per entry, in order.
JsonDumps(d) ==
  [k \in DOMAIN d |->
     <<d[k].col, d[k].ks_stat, d[k].ks_pvalue, d[k].psi, d[k].drift_detected>>]

\* json.loads(text): the dict read back, a repeated key keeping its place
\* and taking the last value.
RECURSIVE JsonLoads(_)
JsonLoads(text) ==
  IF text = << >> THEN << >>
  ELSE LET line == text[Len(text)]
       IN  DictSet(JsonLoads(SubSeq(text, 1, Len(text) - 1)),
                   [col |-> line[1], ks_stat |-> line[2], ks_pvalue |-> line[3],
                    psi |-> line[4], drift_detected |-> line[5]])

\* A flushed write of text at offset 0 of a file opened with "w": the bytes
\* beyond the text stay as they are.
WriteAtStart(content, text) ==
  text \o SubSeq(content, Len(text) + 1, Len(content))

\* open(save_path, "w"): the content of the file once it is opened; the
\* file is created or truncated.
OpenForWrite(content) == << >>

\* The value that marks "no report" (a call that has not returned).
NoReport == <<"none">>

VARIABLES
  heap,           \* the table objects, by reference
  caller_df,      \* the reference the caller passes to prepare_features
  caller_before,  \* the content of the caller's table when the call began
  normalize,      \* the argument normalize
  df,             \* the local variable df of prepare_features (0: unbound)
  ppc,            \* the statement prepare_features is about to execute
  trace,          \* the steps (functions) the call has executed, in order
  p_result,       \* the reference returned (0: none)
  p_error,        \* the exception raised, or "none"
  round,          \* 1: the call on the raw table, 2: the call on its result
  first_out       \* the content of the first call's result, once returned

prep_vars == <<heap, caller_df, caller_before, normalize, df, ppc, trace,
               p_result, p_error, round, first_out>>

VARIABLES
  reference_df,   \* the reference table, shared by every invocation
  current_df,     \* current_df[i]: the current table of invocation i
  dpc,            \* dpc[i]: where invocation i of detect_drift stands
  numeric_cols,   \* numeric_cols[i]: the columns the loop runs over
  col_idx,        \* col_idx[i]: the loop's position in numeric_cols[i]
  drift_report,   \* drift_report[i]: the local dict being filled
  clean_report,   \* clean_report[i]: the dict after the JSON round trip
  d_result,       \* d_result[i]: the value returned, or NoReport
  d_error,        \* d_error[i]: the exception raised, or "none"
  report_file,    \* the content of the file at save_path
  stdout          \* the lines printed so far

drift_vars == <<reference_df, current_df, dpc, numeric_cols, col_idx,
                drift_report, clean_report, d_result, d_error, report_file,
                stdout>>

VARIABLES
  svc_pc,         \* where the deployment stands: training, startup, serving
  train_input,    \* the raw table given to train_model
  snapshot_file,  \* data/training_snapshot.csv: its content, or NoFile
  model_file,     \* load_model finds a model (readmission_model.json)
  model,          \* the global model of api/main.py: "None" or "Booster"
  TRAIN_DF,       \* the global TRAIN_DF of api/main.py: a table, or NoTable
  request,        \* the body of the /predict request being handled
  rpc,            \* the statement predict_risk is about to execute
  prob,           \* the local variable prob of predict_risk
  response,       \* the response sent for the request, or NoResponse
  served,         \* number of /predict requests received so far
  lineage_log,    \* the records log_lineage has printed
  metrics_log,    \* the values log_live_metrics has logged
  ref_steps,      \* the steps that produced the table now in TRAIN_DF
  cur_steps       \* the steps that produced the request's current table

svc_vars == <<svc_pc, train_input, snapshot_file, model_file, model, TRAIN_DF,
              request, rpc, prob, response, served, lineage_log, metrics_log,
              ref_steps, cur_steps>>

\* An absent file, an unloaded table, the request and the response of a
\* service that has received nothing yet.
NoFile == [exists |-> FALSE, csv |-> [header |-> << >>, rows |-> << >>],
           steps |-> << >>]

NoTable == [loaded |-> FALSE, table |-> << >>, steps |-> << >>]

NoRequest == [age |-> 0, gender |-> 0, num_encounters |-> 0, avg_los |-> 0,
              creatinine |-> 0, heart_rate |-> 0, systolic_bp |-> 0]

NoResponse == [status |-> 0, detail |-> "", probability |-> 0,
               risk_level |-> ""]

\* Nothing is trained, started or served, now or later.
ServiceIdle ==
  /\ svc_pc = "none"
  /\ train_input = << >>
  /\ snapshot_file = NoFile
  /\ model_file = FALSE
  /\ model = "None"
  /\ TRAIN_DF = NoTable
  /\ request = NoRequest
  /\ rpc = "idle"
  /\ prob = 0
  /\ response = NoResponse
  /\ served = 0
  /\ lineage_log = << >>
  /\ metrics_log = << >>
  /\ ref_steps = << >>
  /\ cur_steps = << >>

\* Mutant of ReturnValue: the report is read back from the file.
ReturnValueFromFile(i) == JsonLoads(report_file)

\* return clean_report: the value invocation i hands back.
ReturnValue(i) == clean_report[i]

\* The loop of detect_drift over the columns cols, run to its end without
\* interruption, starting from the dict d: the dict it leaves, or the
\* exception it raises.
RECURSIVE ColumnLoop(_, _, _, _)
ColumnLoop(reference, current, cols, d) ==
  IF cols = << >> THEN [error |-> "none", report |-> d]
  ELSE LET step == ColumnStep(reference, current, Head(cols))
       IN  IF step.kind = "raise"
           THEN [error |-> step.error, report |-> NoReport]
           ELSE ColumnLoop(reference, current, Tail(cols),
                           IF step.kind = "entry" THEN DictSet(d, step.entry)
                           ELSE d)

\* detect_drift(reference, current) run alone: the report it returns, or
\* the exception it raises.
DetectDriftAlone(reference, current) ==
  LET r == ColumnLoop(reference, current, NumericCols(reference), << >>)
  IN  IF r.error # "none" THEN r
      ELSE [error |-> "none", report |-> JsonLoads(JsonDumps(r.report))]

\* drift_report = {} ; numeric_cols = reference_df.select_dtypes(...).columns
DriftStart(i) ==
  /\ dpc[i] = "start"
  /\ drift_report' = [drift_report EXCEPT ![i] = << >>]
  /\ numeric_cols' = [numeric_cols EXCEPT ![i] = NumericCols(reference_df)]
  /\ col_idx' = [col_idx EXCEPT ![i] = 1]
  /\ dpc' = [dpc EXCEPT ![i] = "loop"]
  /\ UNCHANGED prep_vars
  /\ UNCHANGED svc_vars
  /\ UNCHANGED <<reference_df, current_df, clean_report, d_result, d_error,
                 report_file, stdout>>

\* Mutant of AfterDropNa: the missing cells are dropped in the table itself.
AfterDropNaInPlace(t, col) ==
  IF ~HasCol(t, col) THEN t
  ELSE [k \in DOMAIN t |->
          IF t[k].name = col THEN [t[k] EXCEPT !.cells = DropNa(@)] ELSE t[k]]

\* Table t after t[col].dropna(): the selection and dropna build a new
\* Series, the table keeps its cells.
AfterDropNa(t, col) == t

\* One iteration of "for col in numeric_cols".
DriftColumn(i) ==
  /\ dpc[i] = "loop"
  /\ col_idx[i] <= Len(numeric_cols[i])
  /\ LET step == ColumnStep(reference_df, current_df[i],
                            numeric_cols[i][col_idx[i]])
     IN  \/ /\ step.kind = "raise"
            /\ d_error' = [d_error EXCEPT ![i] = step.error]
            /\ dpc' = [dpc EXCEPT ![i] = "raised"]
            /\ UNCHANGED <<drift_report, col_idx>>
         \/ /\ step.kind = "entry"
            /\ drift_report' =
                 [drift_report EXCEPT ![i] = DictSet(@, step.entry)]
            /\ col_idx' = [col_idx EXCEPT ![i] = @ + 1]
            /\ UNCHANGED <<d_error, dpc>>
         \/ /\ step.kind = "skip"
            /\ col_idx' = [col_idx EXCEPT ![i] = @ + 1]
            /\ UNCHANGED <<drift_report, d_error, dpc>>
  /\ reference_df' = AfterDropNa(reference_df, numeric_cols[i][col_idx[i]])
  /\ current_df' = [current_df EXCEPT
                      ![i] = AfterDropNa(@, numeric_cols[i][col_idx[i]])]
  /\ UNCHANGED prep_vars
  /\ UNCHANGED svc_vars
  /\ UNCHANGED <<numeric_cols, clean_report, d_result, report_file, stdout>>

\* clean_report = json.loads(json.dumps(drift_report, ...))
DriftClean(i) ==
  /\ dpc[i] = "loop"
  /\ col_idx[i] > Len(numeric_cols[i])
  /\ clean_report' =
       [clean_report EXCEPT ![i] = JsonLoads(JsonDumps(drift_report[i]))]
  /\ dpc' = [dpc EXCEPT ![i] = "open"]
  /\ UNCHANGED prep_vars
  /\ UNCHANGED svc_vars
  /\ UNCHANGED <<reference_df, current_df, numeric_cols, col_idx,
                 drift_report, d_result, d_error, report_file, stdout>>

\* with open(save_path, "w") as f:
DriftOpen(i) ==
  /\ dpc[i] = "open"
  /\ report_file' = OpenForWrite(report_file)
  /\ dpc' = [dpc EXCEPT ![i] = "write"]
  /\ UNCHANGED prep_vars
  /\ UNCHANGED svc_vars
  /\ UNCHANGED <<reference_df, current_df, numeric_cols, col_idx,
                 drift_report, clean_report, d_result, d_error, stdout>>

\* json.dump(clean_report, f, indent=4) and the close of the with block: the
\* buffered text reaches the file in one write at the handle's offset 0.
DriftWrite(i) ==
  /\ dpc[i] = "write"
  /\ report_file' = WriteAtStart(report_file, JsonDumps(clean_report[i]))
  /\ dpc' = [dpc EXCEPT ![i] = "return"]
  /\ UNCHANGED prep_vars
  /\ UNCHANGED svc_vars
  /\ UNCHANGED <<reference_df, current_df, numeric_cols, col_idx,
                 drift_report, clean_report, d_result, d_error, stdout>>

\* print(f"Drift report saved to {save_path}") ; return clean_report
DriftReturn(i) ==
  /\ dpc[i] = "return"
  /\ stdout' = Append(stdout, "Drift report saved")
  /\ d_result' = [d_result EXCEPT ![i] = ReturnValue(i)]
  /\ dpc' = [dpc EXCEPT ![i] = "returned"]
  /\ UNCHANGED prep_vars
  /\ UNCHANGED svc_vars
  /\ UNCHANGED <<reference_df, current_df, numeric_cols, col_idx,
                 drift_report, clean_report, d_error, report_file>>

\* ------------------------------------------- feature_engineering.py
\* The number 1, in cell units of 0.01.
CellOne == 10 * 10

\* Mutant of Assign: the column is appended even when the name exists.
AssignAppending(t, name, dtype, cells) ==
  Append(t, MkCol(name, dtype, cells))

\* df[name] = cells: an existing column is replaced in its place, a new
\* one is appended.
Assign(t, name, dtype, cells) ==
  IF HasCol(t, name)
  THEN [k \in DOMAIN t |->
          IF t[k].name = name THEN MkCol(name, dtype, cells) ELSE t[k]]
  ELSE Append(t, MkCol(name, dtype, cells))

\* The k-th smallest element of a non-empty sequence.
KthSmallest(s, k) ==
  CHOOSE v \in SeqRange(s) :
    /\ Cardinality({j \in DOMAIN s : s[j] < v}) < k
    /\ Cardinality({j \in DOMAIN s : s[j] <= v}) >= k

\* Mutant of Median: the median is never defined.
MedianUndefined(cells) == NaN

\* Series.median(): NaN when no cell is present, else the middle value or
\* the mean of the two middle values of the non-missing cells.
Median(cells) ==
  LET s == DropNa(cells)
      n == Len(s)
  IN  IF n = 0 THEN NaN
      ELSE IF n % 2 = 1 THEN KthSmallest(s, (n + 1) \div 2)
      ELSE (KthSmallest(s, n \div 2) + KthSmallest(s, n \div 2 + 1)) \div 2

\* Mutant of FillNa: the missing cells become 0 whatever the value given.
FillNaWithZero(cells, value) ==
  [k \in DOMAIN cells |-> IF cells[k] = NaN THEN 0 ELSE cells[k]]

\* Series.fillna(value): every missing cell becomes value.
FillNa(cells, value) ==
  [k \in DOMAIN cells |-> IF cells[k] = NaN THEN value ELSE cells[k]]

\* Mutant of HandleMissingValues: every cell of a numeric column is set to
\* the column's median, the present ones too.
HandleMissingValuesOverwriting(t) ==
  [k \in DOMAIN t |->
     IF t[k].dtype \in NumericDtypes
     THEN MkCol(t[k].name, t[k].dtype,
                [r \in DOMAIN t[k].cells |-> Median(t[k].cells)])
     ELSE t[k]]

\* handle_missing_values(df): every numeric column has its missing cells
\* replaced by its own median; the table is changed in place.
HandleMissingValues(t) ==
  [k \in DOMAIN t |->
     IF t[k].dtype \in NumericDtypes
     THEN MkCol(t[k].name, t[k].dtype, FillNa(t[k].cells, Median(t[k].cells)))
     ELSE t[k]]

\* The thresholds of the derived flags, in cell units: 1.5, 140 and 100.
CreatinineLimit == 150

SystolicLimit == 14000

HeartRateLimit == 10000

\* The exception that reading df[col] for arithmetic raises, or "none":
\* KeyError for an absent column, TypeError for a column of objects with
\* at least one row.
ReadError(t, col) ==
  IF ~HasCol(t, col) THEN "KeyError"
  ELSE IF GetCol(t, col).dtype \notin NumericDtypes
          /\ Len(GetCol(t, col).cells) > 0 THEN "TypeError"
  ELSE "none"

\* Mutant of FlagCells: every comparison is >=.
FlagCellsNotStrict(cells, limit, strict) ==
  [k \in DOMAIN cells |->
     IF cells[k] # NaN /\ cells[k] >= limit THEN CellOne ELSE 0]

\* (df[col] > limit).astype(int), or >= when strict is FALSE: a missing
\* cell compares false.
FlagCells(cells, limit, strict) ==
  [k \in DOMAIN cells |->
     IF cells[k] # NaN
        /\ (IF strict THEN cells[k] > limit ELSE cells[k] >= limit)
     THEN CellOne ELSE 0]

\* One assignment df[new] = flag of df[col]: the table after it and the
\* exception it raised.
FlagStep(t, new, col, limit, strict) ==
  IF ReadError(t, col) # "none"
  THEN [table |-> t, error |-> ReadError(t, col)]
  ELSE [table |-> Assign(t, new, "int64",
                         FlagCells(GetCol(t, col).cells, limit, strict)),
        error |-> "none"]

\* The quotient num / den of two integers, den # 0, rounded to the nearest
\* integer.
RECURSIVE RoundDiv(_, _)
RoundDiv(num, den) ==
  IF den < 0 THEN RoundDiv(-num, -den) ELSE (2 * num + den) \div (2 * den)

\* x / (y + 1e-6) in cell units, rounded to the nearest unit: with x and y
\* in units of 0.01 the quotient is (x * 10^6) / (y * 10^4 + 1).
RatioCell(x, y) ==
  IF x = NaN \/ y = NaN THEN NaN
  ELSE RoundDiv(x * 1000 * 1000, y * 10000 + 1)

\* df["encounter_los_ratio"] = df["num_encounters"] / (df["avg_los"] + 1e-6)
RatioStep(t) ==
  IF ReadError(t, "num_encounters") # "none"
  THEN [table |-> t, error |-> ReadError(t, "num_encounters")]
  ELSE IF ReadError(t, "avg_los") # "none"
  THEN [table |-> t, error |-> ReadError(t, "avg_los")]
  ELSE LET ne == GetCol(t, "num_encounters").cells
           al == GetCol(t, "avg_los").cells
       IN  [table |-> Assign(t, "encounter_los_ratio", "float64",
                             [k \in DOMAIN ne |-> RatioCell(ne[k], al[k])]),
            error |-> "none"]

\* add_derived_features(df): the four assignments in order, in place; an
\* exception leaves the columns assigned before it.
AddDerivedFeatures(t) ==
  LET s1 == FlagStep(t, "high_creatinine", "creatinine", CreatinineLimit, TRUE)
      s2 == FlagStep(s1.table, "high_bp", "systolic_bp", SystolicLimit, FALSE)
      s3 == FlagStep(s2.table, "tachycardia", "heart_rate", HeartRateLimit,
                     FALSE)
      s4 == RatioStep(s3.table)
  IN  IF s1.error # "none" THEN s1
      ELSE IF s2.error # "none" THEN s2
      ELSE IF s3.error # "none" THEN s3
      ELSE s4

\* encode_categoricals(df): a placeholder that returns df as it is.
EncodeCategoricals(t) == t

\* The integer square root of v >= 0, searched in lo..hi.
RECURSIVE IsqrtIn(_, _, _)
IsqrtIn(v, lo, hi) ==
  IF lo >= hi THEN lo
  ELSE LET mid == (lo + hi + 1) \div 2
       IN  IF mid * mid <= v THEN IsqrtIn(v, mid, hi)
           ELSE IsqrtIn(v, lo, mid - 1)

\* The smallest power of ten s with d / s <= 10^4: the scale at which the
\* squares of deviations up to d fit the integers (four significant digits).
RECURSIVE DevScale(_)
DevScale(d) == IF d <= 10000 THEN 1 ELSE 10 * DevScale(d \div 10)

\* (col - col.mean()) / (col.std() + 1e-6) for the cells of one column:
\* mean and sample standard deviation (ddof = 1) skip missing cells; with
\* fewer than two cells present the deviation, and so every cell, is NaN.
ZScores(cells) ==
  LET s == DropNa(cells)
      n == Len(s)
  IN  IF n < 2 THEN [k \in DOMAIN cells |-> NaN]
      ELSE LET mean == SumSeq(s) \div n
               scale == DevScale(SetMax({Abs(s[j] - mean) : j \in DOMAIN s}))
               dev(x) == (x - mean) \div scale
               var == SumSeq([j \in DOMAIN s |-> dev(s[j]) * dev(s[j])])
                        \div (n - 1)
               std == IsqrtIn(var, 0, 40000)
           IN  [k \in DOMAIN cells |->
                  IF cells[k] = NaN THEN NaN
                  ELSE IF std = 0 THEN dev(cells[k]) * 1000 * 1000
                  ELSE (dev(cells[k]) * CellOne) \div std]

\* normalize_features(df, exclude): every column that is not excluded and
\* whose dtype is not object is replaced by its z-scores, in place.
NormalizeFeatures(t, exclude) ==
  [k \in DOMAIN t |->
     IF t[k].name \notin exclude /\ t[k].dtype # "object"
     THEN MkCol(t[k].name, "float64", ZScores(t[k].cells))
     ELSE t[k]]

\* The columns prepare_features keeps out of the normalization.
NormalizeExclude == {"readmitted_30d", "patient_id"}

\* Mutant of CopyTable: no copy is made, df stays the caller's object.
CopyTableAliased(h, ref) == [heap |-> h, ref |-> ref]

\* df.copy(): a new table object with the same content.  The heap is the
\* sequence of table objects, a reference an index into it.
CopyTable(h, ref) == [heap |-> Append(h, h[ref]), ref |-> Len(h) + 1]

\* Mutant of PrepareOrder: the normalization runs whatever normalize is.
PrepareOrderAlwaysNormalize(pc, norm) ==
  CASE pc = "copy" -> "impute"
    [] pc = "impute" -> "derive"
    [] pc = "derive" -> "encode"
    [] pc = "encode" -> "normalize"
    [] pc = "normalize" -> "return"
    [] OTHER -> "returned"

\* The statement of prepare_features that follows statement pc.
PrepareOrder(pc, norm) ==
  CASE pc = "copy" -> "impute"
    [] pc = "impute" -> "derive"
    [] pc = "derive" -> "encode"
    [] pc = "encode" -> IF norm THEN "normalize" ELSE "return"
    [] pc = "normalize" -> "return"
    [] OTHER -> "returned"

\* df = df.copy()
PrepCopy ==
  /\ ppc = "copy"
  /\ LET c == CopyTable(heap, caller_df)
     IN  heap' = c.heap /\ df' = c.ref
  /\ ppc' = PrepareOrder("copy", normalize)
  /\ UNCHANGED drift_vars
  /\ UNCHANGED svc_vars
  /\ UNCHANGED <<caller_df, caller_before, normalize, trace, p_result,
                 p_error, round, first_out>>

\* df = handle_missing_values(df)
PrepImpute ==
  /\ ppc = "impute"
  /\ heap' = [heap EXCEPT ![df] = HandleMissingValues(@)]
  /\ trace' = Append(trace, "handle_missing_values")
  /\ ppc' = PrepareOrder("impute", normalize)
  /\ UNCHANGED drift_vars
  /\ UNCHANGED svc_vars
  /\ UNCHANGED <<caller_df, caller_before, normalize, df, p_result, p_error,
                 round, first_out>>

\* df = add_derived_features(df)
PrepDerive ==
  /\ ppc = "derive"
  /\ LET r == AddDerivedFeatures(heap[df])
     IN  /\ heap' = [heap EXCEPT ![df] = r.table]
         /\ p_error' = r.error
         /\ ppc' = IF r.error = "none" THEN PrepareOrder("derive", normalize)
                   ELSE "raised"
  /\ trace' = Append(trace, "add_derived_features")
  /\ UNCHANGED drift_vars
  /\ UNCHANGED svc_vars
  /\ UNCHANGED <<caller_df, caller_before, normalize, df, p_result, round,
                 first_out>>

\* df = encode_categoricals(df)
PrepEncode ==
  /\ ppc = "encode"
  /\ heap' = [heap EXCEPT ![df] = EncodeCategoricals(@)]
  /\ trace' = Append(trace, "encode_categoricals")
  /\ ppc' = PrepareOrder("encode", normalize)
  /\ UNCHANGED drift_vars
  /\ UNCHANGED svc_vars
  /\ UNCHANGED <<caller_df, caller_before, normalize, df, p_result, p_error,
                 round, first_out>>

\* df = normalize_features(df, exclude=["readmitted_30d", "patient_id"])
PrepNormalize ==
  /\ ppc = "normalize"
  /\ heap' = [heap EXCEPT ![df] = NormalizeFeatures(@, NormalizeExclude)]
  /\ trace' = Append(trace, "normalize_features")
  /\ ppc' = PrepareOrder("normalize", normalize)
  /\ UNCHANGED drift_vars
  /\ UNCHANGED svc_vars
  /\ UNCHANGED <<caller_df, caller_before, normalize, df, p_result, p_error,
                 round, first_out>>

\* return df
PrepReturn ==
  /\ ppc = "return"
  /\ p_result' = df
  /\ ppc' = PrepareOrder("return", normalize)
  /\ UNCHANGED drift_vars
  /\ UNCHANGED svc_vars
  /\ UNCHANGED <<heap, caller_df, caller_before, normalize, df, trace,
                 p_error, round, first_out>>

\* The caller passes the returned table to prepare_features again, with the
\* same value of normalize: prepare_features(prepare_features(x)).
PrepAgain ==
  /\ ppc = "returned"
  /\ round = 1
  /\ round' = 2
  /\ first_out' = heap[p_result]
  /\ caller_df' = p_result
  /\ caller_before' = heap[p_result]
  /\ df' = 0
  /\ p_result' = 0
  /\ trace' = << >>
  /\ ppc' = "copy"
  /\ UNCHANGED drift_vars
  /\ UNCHANGED svc_vars
  /\ UNCHANGED <<heap, normalize, p_error>>

\* ------------------------------------------- inputs of detect_drift
\* Cell values of the freely varied column a: 1.00, 2.00 and missing.
SmallValues == {100, 200, NaN}

\* Cell values of the one-column samples: 1.00 and 1.05.
SampleValues == {100, 105}

\* The cells of column b, by pattern: all missing, a constant, a ramp.
PatternCells(p, n) ==
  [k \in 1..n |-> CASE p = "nan" -> NaN
                    [] p = "const" -> 100
                    [] OTHER -> 100 * k]

PatternDtype(p) ==
  CASE p = "const" -> "int64"
    [] p = "text" -> "object"
    [] OTHER -> "float64"

\* Reference tables: an identifier column of objects, a float column a with
\* any cells, and a numeric column b.
SmallReferenceTables ==
  UNION {{<<MkCol("patient_id", "object", [k \in 1..n |-> k]),
            MkCol("a", "float64", a),
            MkCol("b", PatternDtype(p), PatternCells(p, n))>> :
            a \in [1..n -> SmallValues], p \in {"nan", "const", "ramp"}} :
         n \in 0..MaxRows}

\* Reference tables without any numeric column: the identifier column only.
IdOnlyTables ==
  {<<MkCol("patient_id", "object", [k \in 1..n |-> k])>> : n \in 0..MaxRows}

\* Current tables: the identifier column; column a present with any cells
\* or absent; column b absent, numeric, or a column of text.
SmallCurrentTables ==
  UNION {{<<MkCol("patient_id", "object", [k \in 1..n |-> k])>>
          \o (IF hasA THEN <<MkCol("a", "float64", a)>> ELSE << >>)
          \o (IF p = "absent" THEN << >>
              ELSE <<MkCol("b", PatternDtype(p), PatternCells(p, n))>>) :
            a \in [1..n -> SmallValues],
            p \in {"absent", "nan", "const", "ramp", "text"},
            hasA \in BOOLEAN} :
         n \in 0..MaxRows}

\* One-column tables with 1..MaxSample rows and no missing cell.
SampleTables ==
  UNION {{<<MkCol("a", "float64", a)>> : a \in [1..n -> SampleValues]} :
         n \in 1..MaxSample}

\* What an earlier run may have left in the file at save_path: nothing, or
\* an old report of two entries.
StaleFiles ==
  {<< >>,
   <<<<"a", 100000, 793, 1381550, TRUE>>, <<"b", 0, 100000, 0, FALSE>>>>}

\* No prepare_features call is in progress or will be.
PrepIdle ==
  /\ heap = << >>
  /\ caller_df = 0
  /\ caller_before = << >>
  /\ normalize = FALSE
  /\ df = 0
  /\ ppc = "idle"
  /\ trace = << >>
  /\ p_result = 0
  /\ p_error = "none"
  /\ round = 0
  /\ first_out = << >>

\* The state before the invocations in active call detect_drift.
InitDriftCall(reference, current, active, file) ==
  /\ reference_df = reference
  /\ current_df = current
  /\ dpc = [i \in Calls |-> IF i \in active THEN "start" ELSE "idle"]
  /\ numeric_cols = [i \in Calls |-> << >>]
  /\ col_idx = [i \in Calls |-> 0]
  /\ drift_report = [i \in Calls |-> << >>]
  /\ clean_report = [i \in Calls |-> << >>]
  /\ d_result = [i \in Calls |-> NoReport]
  /\ d_error = [i \in Calls |-> "none"]
  /\ report_file = file
  /\ stdout = << >>

InitDrift ==
  /\ \E reference \in SmallReferenceTables \cup SampleTables \cup IdOnlyTables :
       \E current \in (IF reference \in SampleTables THEN SampleTables
                       ELSE SmallCurrentTables) :
         \E file \in StaleFiles :
           InitDriftCall(reference,
                         [i \in Calls |-> IF i = 1 THEN current ELSE << >>],
                         {1}, file)
  /\ PrepIdle
  /\ ServiceIdle

DriftNext ==
  \E i \in Calls :
    \/ DriftStart(i)
    \/ DriftColumn(i)
    \/ DriftClean(i)
    \/ DriftOpen(i)
    \/ DriftWrite(i)
    \/ DriftReturn(i)

\* The tables of the overlapping invocations: one reference table per
\* choice of column a, and current tables that differ in a and in whether b
\* is there.
ConcurrentReferenceTables ==
  {<<MkCol("patient_id", "object", <<1, 2>>),
     MkCol("a", "float64", a),
     MkCol("b", "int64", <<100, 100>>)>> : a \in {<<100, 200>>, <<NaN, NaN>>}}

ConcurrentCurrentTables ==
  {<<MkCol("patient_id", "object", [k \in DOMAIN a |-> k]),
     MkCol("a", "float64", a)>>
   \o (IF hasB THEN <<MkCol("b", "int64", [k \in DOMAIN a |-> 100])>>
       ELSE << >>) :
     a \in {<<100>>, <<200, 200>>, <<NaN>>}, hasB \in BOOLEAN}

\* Every invocation is about to call detect_drift with the same reference
\* table and a current table of its own (FastAPI runs the handler of each
\* request on a thread of its pool).
InitConcurrent ==
  /\ \E reference \in ConcurrentReferenceTables :
       \E current \in [Calls -> ConcurrentCurrentTables] :
         InitDriftCall(reference, current, Calls, << >>)
  /\ PrepIdle
  /\ ServiceIdle

\* --------------------------------------- inputs of prepare_features
\* Rows of a raw table given to prepare_features.
PrepRows == 2

\* The raw rows the input tables are built from, in cell units of 0.01:
\* the example row of the derived-feature test (2.0, 150, 105, 4, 2.0), a
\* row on the thresholds (1.5, 140, 100), a row below them with a zero
\* length of stay, a row whose float fields are missing, and a mixed row.
RawRows ==
  { [creatinine |-> 200, systolic_bp |-> 15000, heart_rate |-> 10500,
     num_encounters |-> 400, avg_los |-> 200],
    [creatinine |-> 150, systolic_bp |-> 14000, heart_rate |-> 10000,
     num_encounters |-> 0, avg_los |-> 0],
    [creatinine |-> 100, systolic_bp |-> 13800, heart_rate |-> 9800,
     num_encounters |-> 300, avg_los |-> 0],
    [creatinine |-> NaN, systolic_bp |-> NaN, heart_rate |-> NaN,
     num_encounters |-> 200, avg_los |-> NaN],
    [creatinine |-> 152, systolic_bp |-> 12000, heart_rate |-> NaN,
     num_encounters |-> 100, avg_los |-> 400] }

\* The raw columns add_derived_features reads, with their dtypes.
RawColumns ==
  <<"creatinine", "systolic_bp", "heart_rate", "num_encounters", "avg_los">>

RawDtype(name) == IF name = "num_encounters" THEN "int64" ELSE "float64"

\* What is wrong with the shape of an input table: nothing, one raw column
\* absent, or creatinine read as text.
Shapes == {"ok", "text"} \cup SeqRange(RawColumns)

\* The table of the given rows: an identifier column of objects, then the
\* raw columns.
RECURSIVE RawColumnsFrom(_, _, _)
RawColumnsFrom(names, rows, shape) ==
  IF names = << >> THEN << >>
  ELSE LET name == Head(names)
           rest == RawColumnsFrom(Tail(names), rows, shape)
       IN  IF shape = name THEN rest
           ELSE <<MkCol(name,
                        IF shape = "text" /\ name = "creatinine"
                        THEN "object" ELSE RawDtype(name),
                        [k \in DOMAIN rows |-> rows[k][name]])>> \o rest

RawTable(rows, shape) ==
  <<MkCol("patient_id", "object", [k \in DOMAIN rows |-> k])>>
  \o RawColumnsFrom(RawColumns, rows, shape)

RawTables ==
  UNION {{RawTable(rows, shape) : rows \in [1..n -> RawRows],
                                  shape \in Shapes} : n \in 0..PrepRows}

\* No detect_drift call is in progress or will be.
DriftIdle == InitDriftCall(<< >>, [i \in Calls |-> << >>], {}, << >>)

\* The state when prepare_features(x, normalize) is called on a raw table.
InitPrepare ==
  /\ \E x \in RawTables : heap = <<x>> /\ caller_before = x
  /\ caller_df = 1
  /\ normalize \in BOOLEAN
  /\ df = 0
  /\ ppc = "copy"
  /\ trace = << >>
  /\ p_result = 0
  /\ p_error = "none"
  /\ round = 1
  /\ first_out = << >>
  /\ DriftIdle
  /\ ServiceIdle

PrepareNext ==
  \/ PrepCopy
  \/ PrepImpute
  \/ PrepDerive
  \/ PrepEncode
  \/ PrepNormalize
  \/ PrepReturn
  \/ PrepAgain

vars == <<drift_vars, prep_vars, svc_vars>>

\* One call of detect_drift on a pair of tables.
SpecDrift == InitDrift /\ [][DriftNext]_vars

\* Overlapping calls of detect_drift on one reference table and one file.
SpecConcurrent == InitConcurrent /\ [][DriftNext]_vars

\* prepare_features on a raw table, then once more on its result.
SpecPrepare == InitPrepare /\ [][PrepareNext]_vars

\* ------------------------------------------------------------ claims
\* The names of the numeric columns of table t.
NumericNames(t) == {t[k].name : k \in {j \in DOMAIN t : t[j].dtype \in {"int64", "float64"}}}

\* Column col of table t is there and has a non-missing cell.
HasValue(t, col) ==
  \E k \in DOMAIN t : t[k].name = col /\ \E r \in DOMAIN t[k].cells : t[k].cells[r] # NaN

\* The entries of every dict of invocation i that holds recorded entries.
Recorded(i) ==
  SeqRange(drift_report[i])
  \cup (IF dpc[i] = "returned" THEN SeqRange(d_result[i]) ELSE {})

\* C1: for every column entry that detect_drift records, drift_detected is
\* true exactly when ks_pvalue < 0.05 or psi > 0.1 (5000 and 10000 in units
\* of 0.00001), either clause alone being sufficient.
C1_DecisionRule ==
  \A i \in Calls : \A e \in Recorded(i) :
    e.drift_detected <=> (e.ks_pvalue < 5000 \/ e.psi > 10000)

\* Witness of C1: a returned report flags a column on the KS clause alone
\* (p-value below 0.05 while psi is not above 0.1).
C1_KsAloneFlagsDrift ==
  \E i \in Calls :
    /\ dpc[i] = "returned"
    /\ \E e \in SeqRange(d_result[i]) :
         e.ks_pvalue < 5000 /\ e.psi <= 10000 /\ e.drift_detected

\* C2: detect_drift never raises because of a single unusable column (one
\* absent from the current table, or whose statistic fails): the call
\* returns, and the report has an entry for every column with usable data
\* on both sides.
C2_ColumnFailureIsLocal ==
  \A i \in Calls :
    /\ dpc[i] # "raised"
    /\ dpc[i] = "returned" =>
         \A col \in NumericNames(reference_df) :
           (HasValue(reference_df, col) /\ HasValue(current_df[i], col))
             => col \in Keys(d_result[i])

\* C3: if a numeric column of the reference table that the current table
\* also has is without any non-missing value on either side, a finished
\* call has returned normally, its report has no entry for that column, and
\* every other column with values on both sides has its entry.
C3_EmptyColumnSkipped ==
  \A i \in Calls : \A col \in NumericNames(reference_df) :
    (/\ dpc[i] \in {"returned", "raised"}
     /\ HasCol(current_df[i], col)
     /\ ~(HasValue(reference_df, col) /\ HasValue(current_df[i], col)))
    => /\ dpc[i] = "returned"
       /\ col \notin Keys(d_result[i])
       /\ \A other \in NumericNames(reference_df) \ {col} :
            (HasValue(reference_df, other) /\ HasValue(current_df[i], other))
              => other \in Keys(d_result[i])

\* C4: whenever detect_drift returns, the keys of the report are exactly
\* the numeric columns of the reference table with at least one
\* non-missing value in both tables, no key twice, and every entry carries
\* exactly the fields ks_stat, ks_pvalue, psi and drift_detected (besides
\* its key).
C4_ReportKeys ==
  \A i \in Calls :
    dpc[i] = "returned" =>
      /\ Keys(d_result[i]) =
           {col \in NumericNames(reference_df) :
              HasValue(reference_df, col) /\ HasValue(current_df[i], col)}
      /\ Cardinality(Keys(d_result[i])) = Len(d_result[i])
      /\ \A e \in SeqRange(d_result[i]) :
           DOMAIN e = {"col", "ks_stat", "ks_pvalue", "psi", "drift_detected"}

\* Witness of C4: a call has returned a report that has an entry for one
\* numeric column and none for another, which has no value on one side.
C4_SomeKeptSomeSkipped ==
  \E i \in Calls :
    /\ dpc[i] = "returned"
    /\ Keys(d_result[i]) # {}
    /\ NumericNames(reference_df) \ Keys(d_result[i]) # {}

\* C5: overlapping invocations of detect_drift on the same reference table
\* and different current tables are safe in every interleaving: each ends
\* as it would when run alone (the same report, or the same exception),
\* and the reference table is never changed.
C5_ConcurrentCallsIndependent ==
  /\ [](\A i \in Calls :
          LET alone == DetectDriftAlone(reference_df, current_df[i])
          IN  /\ dpc[i] = "returned" =>
                   alone.error = "none" /\ d_result[i] = alone.report
              /\ dpc[i] = "raised" => d_error[i] = alone.error)
  /\ [][reference_df' = reference_df]_vars

\* Witness of C5: one invocation has returned a non-empty report while
\* another, which holds a different report, is between opening the file and
\* writing it.
C5_OverlapReached ==
  \E i, j \in Calls :
    /\ dpc[i] = "returned" /\ d_result[i] # << >>
    /\ dpc[j] = "write" /\ clean_report[j] # d_result[i]

\* C6: an invocation of detect_drift performs no I/O and changes no state
\* outside its return value: the file at save_path and the console stay as
\* they were at every step of every call.
C6_NoEffectOutsideReturn ==
  [][report_file' = report_file /\ stdout' = stdout]_vars

\* C7: prepare_features never mutates the table passed by the caller: at
\* every point of a call, for both values of normalize and also when the
\* call ends in an error, the caller's table has the content it had when
\* the call began, and the table returned is a distinct object.
C7_CallerTableUntouched ==
  ppc # "idle" =>
    /\ heap[caller_df] = caller_before
    /\ df # caller_df
    /\ (ppc = "returned" => p_result # 0 /\ p_result # caller_df)

\* Witness of C7: a call has ended in an error after changing its own copy
\* of the table.
C7_ErrorAfterLocalChange ==
  ppc = "raised" /\ heap[df] # heap[caller_df]

\* The steps of prepare_features in their order.
PrepareSteps(norm) ==
  <<"handle_missing_values", "add_derived_features", "encode_categoricals">>
  \o (IF norm THEN <<"normalize_features">> ELSE << >>)

\* C8: prepare_features runs its steps in the fixed order impute, derive,
\* encode, and then normalize_features only when normalize is true: what
\* has run so far is always a prefix of that order, a call that returns has
\* run all of it, and with normalize false normalize_features never runs.
C8_FixedOrder ==
  /\ Len(trace) <= Len(PrepareSteps(normalize))
  /\ trace = SubSeq(PrepareSteps(normalize), 1, Len(trace))
  /\ (ppc = "returned" => trace = PrepareSteps(normalize))
  /\ (~normalize => "normalize_features" \notin SeqRange(trace))

\* Witness of C8: a call with normalize false has returned after running
\* the three steps.
C8_ReturnedWithoutNormalize ==
  /\ ppc = "returned" /\ ~normalize
  /\ trace = <<"handle_missing_values", "add_derived_features",
               "encode_categoricals">>

\* C9: with normalize false, prepare_features(prepare_features(x)) returns,
\* and has the same columns as prepare_features(x), each once, with the
\* same value in every cell.
C9_Idempotent ==
  (round = 2 /\ ~normalize) =>
    /\ ppc # "raised"
    /\ ppc = "returned" =>
         LET again == heap[p_result]
         IN  /\ Len(again) = Len(first_out)
             /\ Cardinality(ColNames(again)) = Len(again)
             /\ \A k \in DOMAIN again :
                  /\ again[k].name = first_out[k].name
                  /\ again[k].cells = first_out[k].cells

\* Witness of C9: the second call has returned, on a table of at least two
\* rows in which the first call filled a missing creatinine.
C9_SecondCallReturned ==
  /\ round = 2 /\ ppc = "returned" /\ ~normalize
  /\ Len(first_out[1].cells) >= 2
  /\ \E r \in DOMAIN heap[1][2].cells :
       heap[1][2].cells[r] = NaN /\ GetCol(first_out, "creatinine").cells[r] # NaN

\* The derived columns, in the order add_derived_features assigns them.
DerivedColumns ==
  <<"high_creatinine", "high_bp", "tachycardia", "encounter_los_ratio">>

\* Cell r of column col of table t.
Cell(t, col, r) == GetCol(t, col).cells[r]

\* Row r of table t has the derived values the claim gives, computed from
\* the row's own raw values (cells in units of 0.01; a missing raw value
\* compares false and makes the ratio missing).
DerivedRowCorrect(t, r) ==
  LET cr == Cell(t, "creatinine", r)
      bp == Cell(t, "systolic_bp", r)
      hr == Cell(t, "heart_rate", r)
      ne == Cell(t, "num_encounters", r)
      al == Cell(t, "avg_los", r)
      ratio == Cell(t, "encounter_los_ratio", r)
  IN  /\ Cell(t, "high_creatinine", r) = (IF cr # NaN /\ cr > 150 THEN 100 ELSE 0)
      /\ Cell(t, "high_bp", r) = (IF bp # NaN /\ bp >= 14000 THEN 100 ELSE 0)
      /\ Cell(t, "tachycardia", r) = (IF hr # NaN /\ hr >= 10000 THEN 100 ELSE 0)
      /\ IF ne = NaN \/ al = NaN THEN ratio = NaN
         ELSE /\ ratio # NaN
              /\ 2 * Abs(ratio * (al * 10000 + 1) - ne * 1000000)
                   <= Abs(al * 10000 + 1)
      /\ (cr = 200 /\ bp = 15000 /\ hr = 10500 /\ ne = 400 /\ al = 200)
           => ratio = 200

\* C10: a call of add_derived_features that returns keeps every original
\* column as it is, leaves the table with its columns plus exactly the four
\* derived ones, appended in order when the table had none of them, and
\* sets in every row high_creatinine = 1 iff creatinine > 1.5, high_bp = 1
\* iff systolic_bp >= 140, tachycardia = 1 iff heart_rate >= 100 (0
\* otherwise) and encounter_los_ratio = num_encounters / (avg_los + 1e-6),
\* to the nearest 0.01.
C10_DerivedFeatures ==
  [][(ppc = "derive" /\ ppc' = "encode") =>
       LET old == heap[df]
           new == heap'[df]
       IN  /\ ColNames(new) = ColNames(old) \cup SeqRange(DerivedColumns)
           /\ Cardinality(ColNames(new)) = Len(new)
           /\ \A k \in DOMAIN old :
                old[k].name \notin SeqRange(DerivedColumns) => new[k] = old[k]
           /\ (ColNames(old) \cap SeqRange(DerivedColumns) = {}) =>
                /\ Len(new) = Len(old) + 4
                /\ \A j \in 1..4 : new[Len(old) + j].name = DerivedColumns[j]
           /\ \A r \in DOMAIN new[1].cells : DerivedRowCorrect(new, r)]_vars

\* Witness of C10: add_derived_features has returned on a raw table that
\* holds the example row (2.0, 150, 105, 4, 2.0) and a row with
\* creatinine exactly 1.5, giving 1, 1, 1, 2.00 and a high_creatinine of 0.
C10_ExampleRowDerived ==
  /\ ppc = "encode" /\ round = 1
  /\ \E r \in DOMAIN heap[df][1].cells :
       /\ Cell(heap[df], "creatinine", r) = 200
       /\ Cell(heap[df], "avg_los", r) = 200
       /\ Cell(heap[df], "high_creatinine", r) = 100
       /\ Cell(heap[df], "high_bp", r) = 100
       /\ Cell(heap[df], "tachycardia", r) = 100
       /\ Cell(heap[df], "encounter_los_ratio", r) = 200
  /\ \E r \in DOMAIN heap[df][1].cells :
       /\ Cell(heap[df], "creatinine", r) = 150
       /\ Cell(heap[df], "high_creatinine", r) = 0

\* ------------------------------------------- prepare_features as a whole
\* prepare_features(x, normalize) run to its end: the table it returns, or
\* the exception it raises and the state of its copy at that point.
PrepareFeaturesAlone(x, norm) ==
  LET derived == AddDerivedFeatures(HandleMissingValues(x))
      encoded == EncodeCategoricals(derived.table)
  IN  IF derived.error # "none" THEN derived
      ELSE [table |-> IF norm THEN NormalizeFeatures(encoded, NormalizeExclude)
                      ELSE encoded,
            error |-> "none"]

\* The raw fields of row r of table t, and its derived fields.
RawRecord(t, r) == [c \in SeqRange(RawColumns) |-> Cell(t, c, r)]

DerivedRecord(t, r) == [c \in SeqRange(DerivedColumns) |-> Cell(t, c, r)]

\* Row r of table t has a value in every raw field.
CompleteRecord(t, r) == \A c \in SeqRange(RawColumns) : Cell(t, c, r) # NaN

\* The rows of table t.
Rows(t) == DOMAIN t[1].cells

\* C11 as stated: in the output of prepare_features the derived fields of a
\* record are a function of the record's own raw fields only: whenever the
\* table of the call and any other input table hold the same raw record,
\* the two outputs give that record the same four derived fields.
C11_DerivedFromOwnRecord ==
  (ppc = "returned" /\ round = 1) =>
    \A y \in RawTables :
      LET other == PrepareFeaturesAlone(y, normalize)
      IN  other.error = "none" =>
            \A r \in Rows(caller_before) : \A q \in Rows(y) :
              RawRecord(caller_before, r) = RawRecord(y, q)
                => DerivedRecord(heap[p_result], r)
                     = DerivedRecord(other.table, q)

\* C11 as amended: with normalize false, the derived fields of a record
\* that has no missing raw field are a function of that record's own raw
\* fields only: whenever the table of the call and any other input table
\* hold the same complete raw record, the two outputs give it the same four
\* derived fields.
C11_CompleteRecordDerivedAlike ==
  (ppc = "returned" /\ round = 1 /\ ~normalize) =>
    \A y \in RawTables :
      LET other == PrepareFeaturesAlone(y, normalize)
      IN  other.error = "none" =>
            \A r \in Rows(caller_before) : \A q \in Rows(y) :
              (/\ RawRecord(caller_before, r) = RawRecord(y, q)
               /\ CompleteRecord(y, q))
                => DerivedRecord(heap[p_result], r)
                     = DerivedRecord(other.table, q)

\* Witness of C11: a call with normalize false has returned a table in which
\* a complete record stands next to a record whose missing creatinine was
\* filled from the complete one.
C11_CompleteBesideImputed ==
  /\ ppc = "returned" /\ round = 1 /\ ~normalize
  /\ \E r, q \in Rows(caller_before) :
       /\ CompleteRecord(caller_before, r)
       /\ Cell(caller_before, "creatinine", q) = NaN
       /\ Cell(heap[p_result], "creatinine", q)
            = Cell(caller_before, "creatinine", r)

\* The k-th smallest value of the non-empty sequence s is v.
IsKthSmallest(s, k, v) ==
  /\ v \in SeqRange(s)
  /\ Cardinality({j \in DOMAIN s : s[j] < v}) < k
  /\ Cardinality({j \in DOMAIN s : s[j] <= v}) >= k

\* m is the median of the non-empty sequence s: the mean of its two middle
\* values (which coincide when the length is odd), to the cell unit.
IsMedianOf(s, m) ==
  \E a, b \in SeqRange(s) :
    /\ IsKthSmallest(s, (Len(s) + 1) \div 2, a)
    /\ IsKthSmallest(s, Len(s) \div 2 + 1, b)
    /\ m = (a + b) \div 2

\* C12: handle_missing_values raises no error and leaves the table with the
\* same columns; every missing cell of a numeric column becomes the median
\* of the column's non-missing cells of the same table, every non-missing
\* cell and every non-numeric column stays as it was, and a numeric column
\* that is entirely missing stays entirely missing.
C12_MissingFilledWithMedian ==
  [][ppc = "impute" =>
       /\ ppc' = "derive"
       /\ LET old == heap[df]
              new == heap'[df]
          IN  /\ Len(new) = Len(old)
              /\ \A k \in DOMAIN old :
                   /\ new[k].name = old[k].name
                   /\ new[k].dtype = old[k].dtype
                   /\ IF old[k].dtype \notin {"int64", "float64"}
                      THEN new[k] = old[k]
                      ELSE LET present ==
                                 SelectSeq(old[k].cells, LAMBDA x : x # NaN)
                           IN  \A r \in DOMAIN old[k].cells :
                                 IF old[k].cells[r] # NaN
                                 THEN new[k].cells[r] = old[k].cells[r]
                                 ELSE IF present = << >>
                                 THEN new[k].cells[r] = NaN
                                 ELSE IsMedianOf(present, new[k].cells[r])]_vars

\* Witness of C12: handle_missing_values has run on a table of two rows in
\* which creatinine was missing in one row and heart_rate in both: the
\* creatinine is filled, the heart_rate is still entirely missing.
C12_FilledAndLeftMissing ==
  /\ ppc = "derive" /\ round = 1
  /\ Len(caller_before[1].cells) = 2
  /\ HasCol(caller_before, "creatinine") /\ HasCol(caller_before, "heart_rate")
  /\ \E r \in Rows(caller_before) :
       /\ Cell(caller_before, "creatinine", r) = NaN
       /\ Cell(heap[df], "creatinine", r) # NaN
  /\ \A r \in Rows(caller_before) :
       /\ Cell(caller_before, "heart_rate", r) = NaN
       /\ Cell(heap[df], "heart_rate", r) = NaN

\* Column c of table t holds a missing cell.
HasMissing(t, c) ==
  \E r \in DOMAIN GetCol(t, c).cells : GetCol(t, c).cells[r] = NaN

\* C13 as stated: at the moment add_derived_features executes in a run of
\* prepare_features, none of the raw columns it reads holds a missing value.
C13_NoMissingAtDerive ==
  ppc = "derive" =>
    \A c \in SeqRange(RawColumns) :
      HasCol(heap[df], c) => ~HasMissing(heap[df], c)

\* C13 as amended: at the moment add_derived_features executes, a numeric
\* raw column that had at least one non-missing value in the input table
\* holds no missing value, and a numeric raw column that was entirely
\* missing in the input is still entirely missing.
C13_MissingOnlyWhereAllMissing ==
  (ppc = "derive" /\ round = 1) =>
    \A c \in SeqRange(RawColumns) :
      (HasCol(caller_before, c)
         /\ GetCol(caller_before, c).dtype \in {"int64", "float64"}) =>
        IF HasValue(caller_before, c)
        THEN ~HasMissing(heap[df], c)
        ELSE \A r \in Rows(heap[df]) : Cell(heap[df], c, r) = NaN

\* Witness of C13: add_derived_features is about to run on a table whose
\* avg_los was missing in one row of the input and whose heart_rate was
\* missing in every row: avg_los has been filled, heart_rate has not.
C13_DeriveOnMissingColumn ==
  /\ ppc = "derive" /\ round = 1
  /\ \A c \in SeqRange(RawColumns) : HasCol(caller_before, c)
  /\ HasMissing(caller_before, "avg_los")
  /\ ~HasMissing(heap[df], "avg_los")
  /\ ~HasValue(caller_before, "heart_rate")
  /\ HasMissing(heap[df], "heart_rate")

\* C14: when a required raw column is absent from the input table, a call
\* of prepare_features that has ended has failed in add_derived_features
\* by signalling a SchemaError, and has returned no table.
C14_AbsentColumnSchemaError ==
  (/\ round = 1
   /\ ppc \in {"returned", "raised"}
   /\ \E c \in SeqRange(RawColumns) : ~HasCol(caller_before, c))
  => /\ ppc = "raised"
     /\ p_error = "SchemaError"
     /\ p_result = 0

\* The numeric columns the two tables share.
SharedNumeric(reference, current) ==
  NumericNames(reference) \cap NumericNames(current)

\* C15: when the reference and the current table share no numeric column, a
\* call of detect_drift that has ended has been aborted with a SchemaError
\* and has returned no report.
C15_NoSharedColumnSchemaError ==
  \A i \in Calls :
    (/\ dpc[i] \in {"returned", "raised"}
     /\ SharedNumeric(reference_df, current_df[i]) = {})
    => /\ dpc[i] = "raised"
       /\ d_error[i] = "SchemaError"

\* ------------------------------------- training, startup and /predict
\* Rows of the raw table given to train_model.
TrainRows == 3

\* Number of /predict requests the service receives.
MaxRequests == 1

\* Mutant of DefaultNormalize: prepare_features normalizes by default.
DefaultNormalizeOn == TRUE

\* The default of prepare_features' parameter normalize, which the calls in
\* train_model and predict_risk leave as it is.
DefaultNormalize == FALSE

\* len(df).
RowCount(t) == IF t = << >> THEN 0 ELSE Len(t[1].cells)

\* df.drop(names, axis=1).
DropColumns(t, names) == SelectSeq(t, LAMBDA c : c.name \notin names)

\* The rows idx of table t, in that order.
TakeRows(t, idx) ==
  [k \in DOMAIN t |->
     MkCol(t[k].name, t[k].dtype, [j \in DOMAIN idx |-> t[k].cells[idx[j]]])]

\* The elements of a set of numbers in increasing order.
RECURSIVE SortedSeq(_)
SortedSeq(S) ==
  IF S = {} THEN << >> ELSE <<SetMin(S)>> \o SortedSeq(S \ {SetMin(S)})

\* DataFrame.to_csv(path, index=False): a header line and one line per row;
\* a cell is written as an integer, a float, a text, or nothing when it is
\* missing, and the dtype of the column is not written.
CsvCell(dtype, v) ==
  IF v = NaN THEN [kind |-> "empty", value |-> 0]
  ELSE [kind |-> CASE dtype = "int64" -> "int"
                   [] dtype = "float64" -> "float"
                   [] OTHER -> "text",
        value |-> v]

ToCsv(t) ==
  [header |-> [k \in DOMAIN t |-> t[k].name],
   rows |-> [r \in 1..RowCount(t) |->
               [k \in DOMAIN t |-> CsvCell(t[k].dtype, t[k].cells[r])]]]

\* The dtype pd.read_csv infers for a column from the kinds of its cells.
CsvDtype(kinds) ==
  IF kinds = {} \/ "text" \in kinds THEN "object"
  ELSE IF kinds = {"int"} THEN "int64"
  ELSE "float64"

\* pd.read_csv(path).
ReadCsv(csv) ==
  [k \in DOMAIN csv.header |->
     MkCol(csv.header[k],
           CsvDtype({csv.rows[r][k].kind : r \in DOMAIN csv.rows}),
           [r \in DOMAIN csv.rows |->
              IF csv.rows[r][k].kind = "empty" THEN NaN
              ELSE csv.rows[r][k].value])]

\* The columns of the dataset build_dataset returns, in order, and the
\* fields of a /predict request body.
DatasetColumns ==
  <<"patient_id", "age", "gender", "num_encounters", "avg_los", "creatinine",
    "heart_rate", "systolic_bp", "readmitted_30d">>

RequestFields ==
  <<"age", "gender", "num_encounters", "avg_los", "creatinine", "heart_rate",
    "systolic_bp">>

FieldDtype(name) ==
  IF name = "patient_id" THEN "object"
  ELSE IF name \in {"age", "gender", "num_encounters", "readmitted_30d"}
  THEN "int64"
  ELSE "float64"

\* The patients the training tables are built from, in cell units of 0.01:
\* a readmitted patient with every lab value, and one without a heart rate.
TrainRecords ==
  { [patient_id |-> 1, age |-> 7000, gender |-> 100, num_encounters |-> 400,
     avg_los |-> 200, creatinine |-> 200, heart_rate |-> 10500,
     systolic_bp |-> 15000, readmitted_30d |-> 100],
    [patient_id |-> 2, age |-> 4500, gender |-> 0, num_encounters |-> 100,
     avg_los |-> 400, creatinine |-> 100, heart_rate |-> NaN,
     systolic_bp |-> 12000, readmitted_30d |-> 0] }

TrainTables ==
  {[k \in DOMAIN DatasetColumns |->
      MkCol(DatasetColumns[k], FieldDtype(DatasetColumns[k]),
            [r \in DOMAIN rows |-> rows[r][DatasetColumns[k]]])] :
     rows \in [1..TrainRows -> TrainRecords]}

\* The bodies of the /predict requests: two valid ones, one with a heart
\* rate outside the schema's range, one without creatinine.
RequestBodies ==
  { [age |-> 7000, gender |-> 100, num_encounters |-> 400, avg_los |-> 200,
     creatinine |-> 200, heart_rate |-> 10500, systolic_bp |-> 15000],
    [age |-> 4500, gender |-> 0, num_encounters |-> 0, avg_los |-> 0,
     creatinine |-> 150, heart_rate |-> 10000, systolic_bp |-> 14000],
    [age |-> 7000, gender |-> 100, num_encounters |-> 400, avg_los |-> 200,
     creatinine |-> 200, heart_rate |-> 1000, systolic_bp |-> 15000],
    [age |-> 7000, gender |-> 100, num_encounters |-> 400, avg_los |-> 200,
     creatinine |-> NaN, heart_rate |-> 10500, systolic_bp |-> 15000] }

\* FastAPI's validation of the body against PatientFeatures: every field
\* is there.
BodyComplete(req) == \A f \in SeqRange(RequestFields) : req[f] # NaN

\* pd.DataFrame([features.dict()]): a table of one row.
RequestFrame(req) ==
  [k \in DOMAIN RequestFields |->
     MkCol(RequestFields[k], FieldDtype(RequestFields[k]),
           <<req[RequestFields[k]]>>)]

\* patient_feature_schema.validate(df) passes: the checks of the schema, in
\* cell units.
SchemaValid(req) ==
  /\ req.age >= 0 /\ req.age <= 120 * CellOne
  /\ req.gender \in {0, CellOne}
  /\ req.num_encounters >= 0
  /\ req.avg_los >= 0
  /\ req.creatinine >= 0
  /\ req.heart_rate >= 30 * CellOne /\ req.heart_rate <= 250 * CellOne
  /\ req.systolic_bp >= 50 * CellOne /\ req.systolic_bp <= 250 * CellOne

\* What model.predict may return, in units of 0.00001.
Probabilities == {20000, 50000, 90000}

\* The call prepare_features(x, norm): the state in which its first
\* statement is about to execute.
CallPrepareFeatures(x, norm) ==
  /\ heap' = <<x>>
  /\ caller_df' = 1
  /\ caller_before' = x
  /\ normalize' = norm
  /\ df' = 0
  /\ ppc' = "copy"
  /\ trace' = << >>
  /\ p_result' = 0
  /\ p_error' = "none"
  /\ round' = 1
  /\ first_out' = << >>

\* The call detect_drift(reference, current), as invocation 1.
CallDetectDrift(reference, current) ==
  /\ reference_df' = reference
  /\ current_df' = [i \in Calls |-> IF i = 1 THEN current ELSE << >>]
  /\ dpc' = [i \in Calls |-> IF i = 1 THEN "start" ELSE "idle"]
  /\ numeric_cols' = [i \in Calls |-> << >>]
  /\ col_idx' = [i \in Calls |-> 0]
  /\ drift_report' = [i \in Calls |-> << >>]
  /\ clean_report' = [i \in Calls |-> << >>]
  /\ d_result' = [i \in Calls |-> NoReport]
  /\ d_error' = [i \in Calls |-> "none"]
  /\ UNCHANGED <<report_file, stdout>>

\* A response with a status and a detail only.
ErrorResponse(status, detail) ==
  [status |-> status, detail |-> detail, probability |-> 0, risk_level |-> ""]

\* A caller outside the service (a test, a notebook) calls
\* prepare_features(x, normalize) with either value of normalize; the table
\* it gets is not kept.
AdHocPrepare ==
  /\ svc_pc = "offline"
  /\ \E norm \in BOOLEAN : CallPrepareFeatures(train_input, norm)
  /\ svc_pc' = "adhoc"
  /\ UNCHANGED drift_vars
  /\ UNCHANGED <<train_input, snapshot_file, model_file, model, TRAIN_DF,
                 request, rpc, prob, response, served, lineage_log,
                 metrics_log, ref_steps, cur_steps>>

AdHocDone ==
  /\ svc_pc = "adhoc"
  /\ ppc \in {"returned", "raised"}
  /\ svc_pc' = "ready"
  /\ UNCHANGED drift_vars
  /\ UNCHANGED prep_vars
  /\ UNCHANGED <<train_input, snapshot_file, model_file, model, TRAIN_DF,
                 request, rpc, prob, response, served, lineage_log,
                 metrics_log, ref_steps, cur_steps>>

\* The tables of the script test_drift.py: ref = {"a": [1, 2, 3, 4, 5]} and
\* cur = {"a": [10, 11, 12, 13, 14]}.
ScriptReference == <<MkCol("a", "int64", [k \in 1..5 |-> k * CellOne])>>

ScriptCurrent == <<MkCol("a", "int64", [k \in 1..5 |-> (k + 9) * CellOne])>>

\* The script test_drift.py is run instead of the service: it calls
\* detect_drift(ref, cur, "test_drift_report.html") on its two tables, which
\* no feature engineering has touched.
DriftScript ==
  /\ svc_pc = "offline"
  /\ CallDetectDrift(ScriptReference, ScriptCurrent)
  /\ ref_steps' = << >>
  /\ cur_steps' = << >>
  /\ svc_pc' = "script"
  /\ UNCHANGED prep_vars
  /\ UNCHANGED <<train_input, snapshot_file, model_file, model, TRAIN_DF,
                 request, rpc, prob, response, served, lineage_log,
                 metrics_log>>

\* train_model: df = prepare_features(df)
TrainStart ==
  /\ svc_pc \in {"offline", "ready"}
  /\ CallPrepareFeatures(train_input, DefaultNormalize)
  /\ svc_pc' = "train_prepare"
  /\ UNCHANGED drift_vars
  /\ UNCHANGED <<train_input, snapshot_file, model_file, model, TRAIN_DF,
                 request, rpc, prob, response, served, lineage_log,
                 metrics_log, ref_steps, cur_steps>>

\* training_snapshot = X_train.copy() with the label column put back: the
\* rows kept for training, without patient_id, the label last.
TrainingSnapshot(t, kept) ==
  LET label == GetCol(t, "readmitted_30d")
      idx == SortedSeq(kept)
  IN  Append(TakeRows(DropColumns(t, {"patient_id", "readmitted_30d"}), idx),
             MkCol("readmitted_30d", label.dtype,
                   [j \in DOMAIN idx |-> label.cells[idx[j]]]))

\* train_model from X = df.drop(...) to training_snapshot.to_csv(...):
\* train_test_split keeps out ceil(0.2 n) rows for the test and fails when
\* no row is left for training; the rows it keeps out depend on the
\* shuffle.  An exception of prepare_features ends train_model.
TrainSnapshot ==
  /\ svc_pc = "train_prepare"
  /\ ppc \in {"returned", "raised"}
  /\ IF ppc = "raised"
     THEN svc_pc' = "deployable" /\ UNCHANGED snapshot_file
     ELSE LET out == heap[p_result]
              n == RowCount(out)
              n_test == (n + 4) \div 5
          IN  IF n - n_test <= 0 \/ ~HasCol(out, "readmitted_30d")
              THEN svc_pc' = "deployable" /\ UNCHANGED snapshot_file
              ELSE /\ \E test \in SUBSET (1..n) :
                        /\ Cardinality(test) = n_test
                        /\ snapshot_file' =
                             [exists |-> TRUE,
                              csv |-> ToCsv(TrainingSnapshot(out,
                                                             (1..n) \ test)),
                              steps |-> trace]
                   /\ svc_pc' = "train_fit"
  /\ UNCHANGED drift_vars
  /\ UNCHANGED prep_vars
  /\ UNCHANGED <<train_input, model_file, model, TRAIN_DF, request, rpc, prob,
                 response, served, lineage_log, metrics_log, ref_steps,
                 cur_steps>>

\* train_model from xgb.train to model.save_model(MODEL_PATH): the model
\* file is written unless the fit, a metric or an MLflow call raises first.
TrainFit ==
  /\ svc_pc = "train_fit"
  /\ \E saved \in BOOLEAN : model_file' = (model_file \/ saved)
  /\ svc_pc' = "deployable"
  /\ UNCHANGED drift_vars
  /\ UNCHANGED prep_vars
  /\ UNCHANGED <<train_input, snapshot_file, model, TRAIN_DF, request, rpc,
                 prob, response, served, lineage_log, metrics_log, ref_steps,
                 cur_steps>>

\* Mutant of StartupGlobals: each global is set by its own load, the model
\* staying loaded when the snapshot cannot be read.
StartupGlobalsSeparately(model_found, snapshot_found) ==
  [model |-> IF model_found THEN "Booster" ELSE "None",
   loaded |-> model_found /\ snapshot_found]

\* try: model = load_model() ; TRAIN_DF = pd.read_csv(...)
\* except Exception: model = None ; TRAIN_DF = None.  load_model returns a
\* Booster or raises when it finds no model, read_csv raises when there is
\* no snapshot; the except branch resets both globals.
StartupGlobals(model_found, snapshot_found) ==
  IF model_found /\ snapshot_found
  THEN [model |-> "Booster", loaded |-> TRUE]
  ELSE [model |-> "None", loaded |-> FALSE]

\* GET /health: the report of the two globals.
HealthCheck ==
  [status |-> "healthy",
   model_loaded |-> model # "None",
   training_data_loaded |-> TRAIN_DF.loaded]

\* The import of api/main.py: the two loads in one try block.
Startup ==
  /\ svc_pc \in {"offline", "ready", "deployable"}
  /\ LET g == StartupGlobals(model_file, snapshot_file.exists)
     IN  /\ model' = g.model
         /\ TRAIN_DF' = IF g.loaded
                        THEN [loaded |-> TRUE,
                              table |-> ReadCsv(snapshot_file.csv),
                              steps |-> snapshot_file.steps]
                        ELSE NoTable
  /\ svc_pc' = "serving"
  /\ UNCHANGED drift_vars
  /\ UNCHANGED prep_vars
  /\ UNCHANGED <<train_input, snapshot_file, model_file, request, rpc, prob,
                 response, served, lineage_log, metrics_log, ref_steps,
                 cur_steps>>

\* A POST /predict arrives: FastAPI parses the body into PatientFeatures
\* and answers 422 itself when a field is missing.
PredictReceive(req) ==
  /\ svc_pc = "serving"
  /\ rpc = "idle"
  /\ served < MaxRequests
  /\ served' = served + 1
  /\ request' = req
  /\ prob' = 0
  /\ IF BodyComplete(req)
     THEN response' = NoResponse /\ rpc' = "check"
     ELSE response' = ErrorResponse(422, "validation error") /\ rpc' = "idle"
  /\ UNCHANGED drift_vars
  /\ UNCHANGED prep_vars
  /\ UNCHANGED <<svc_pc, train_input, snapshot_file, model_file, model,
                 TRAIN_DF, lineage_log, metrics_log, ref_steps, cur_steps>>

\* Mutant of LoadedCheck: the two checks are left out.
LoadedCheckSkipped(m, loaded) == ""

\* if model is None: raise 503 ; if TRAIN_DF is None: raise 503: the
\* detail of the HTTPException raised, or "" when both are loaded.
LoadedCheck(m, loaded) ==
  IF m = "None" THEN "Model not loaded"
  ELSE IF ~loaded THEN "Training data not loaded"
  ELSE ""

\* The first statements of predict_risk: the two checks.
PredictCheck ==
  /\ rpc = "check"
  /\ LET detail == LoadedCheck(model, TRAIN_DF.loaded)
     IN  IF detail # ""
         THEN response' = ErrorResponse(503, detail) /\ rpc' = "idle"
         ELSE rpc' = "validate" /\ UNCHANGED response
  /\ UNCHANGED drift_vars
  /\ UNCHANGED prep_vars
  /\ UNCHANGED <<svc_pc, train_input, snapshot_file, model_file, model,
                 TRAIN_DF, request, prob, served, lineage_log, metrics_log,
                 ref_steps, cur_steps>>

\* df = pd.DataFrame([features.dict()]) ; df = schema.validate(df) ;
\* df = prepare_features(df): a SchemaError of the validation is not caught
\* and ends the request with status 500; otherwise prepare_features is
\* called.
PredictValidate ==
  /\ rpc = "validate"
  /\ IF SchemaValid(request)
     THEN /\ CallPrepareFeatures(RequestFrame(request), DefaultNormalize)
          /\ rpc' = "prepare"
          /\ UNCHANGED response
     ELSE /\ response' = ErrorResponse(500, "SchemaError")
          /\ rpc' = "idle"
          /\ UNCHANGED prep_vars
  /\ UNCHANGED drift_vars
  /\ UNCHANGED <<svc_pc, train_input, snapshot_file, model_file, model,
                 TRAIN_DF, request, prob, served, lineage_log, metrics_log,
                 ref_steps, cur_steps>>

\* if len(df) > 0: try: detect_drift(TRAIN_DF, df): prepare_features has
\* ended; an exception of it ends the request with status 500.
PredictDrift ==
  /\ rpc = "prepare"
  /\ ppc \in {"returned", "raised"}
  /\ IF ppc = "raised"
     THEN /\ response' = ErrorResponse(500, p_error)
          /\ rpc' = "idle"
          /\ UNCHANGED drift_vars
          /\ UNCHANGED <<ref_steps, cur_steps>>
     ELSE IF RowCount(heap[p_result]) > 0
     THEN /\ CallDetectDrift(TRAIN_DF.table, heap[p_result])
          /\ ref_steps' = TRAIN_DF.steps
          /\ cur_steps' = trace
          /\ rpc' = "drift"
          /\ UNCHANGED response
     ELSE /\ rpc' = "infer"
          /\ UNCHANGED drift_vars
          /\ UNCHANGED <<response, ref_steps, cur_steps>>
  /\ UNCHANGED prep_vars
  /\ UNCHANGED <<svc_pc, train_input, snapshot_file, model_file, model,
                 TRAIN_DF, request, prob, served, lineage_log, metrics_log>>

\* Mutant of Caught: the handler catches a ValueError only.
CaughtValueErrorOnly(error) == error = "ValueError"

\* except Exception as e: the clause catches whatever exception
\* detect_drift raises.
Caught(error) == TRUE

\* except Exception as e: print(f"Drift detection warning: {e}"):
\* detect_drift has ended; when it raised, the warning is printed and the
\* handler goes on.  An exception that is not caught would end the request
\* with status 500.
PredictDriftDone ==
  /\ rpc = "drift"
  /\ dpc[1] \in {"returned", "raised"}
  /\ IF dpc[1] = "raised" /\ ~Caught(d_error[1])
     THEN /\ response' = ErrorResponse(500, d_error[1])
          /\ rpc' = "idle"
          /\ UNCHANGED stdout
     ELSE /\ stdout' = IF dpc[1] = "raised"
                       THEN Append(stdout, "Drift detection warning")
                       ELSE stdout
          /\ rpc' = "infer"
          /\ UNCHANGED response
  /\ UNCHANGED <<reference_df, current_df, dpc, numeric_cols, col_idx,
                 drift_report, clean_report, d_result, d_error, report_file>>
  /\ UNCHANGED prep_vars
  /\ UNCHANGED <<svc_pc, train_input, snapshot_file, model_file, model,
                 TRAIN_DF, request, prob, served, lineage_log,
                 metrics_log, ref_steps, cur_steps>>

\* prob = float(model.predict(xgb.DMatrix(df_features))[0])
PredictInfer ==
  /\ rpc = "infer"
  /\ prob' \in Probabilities
  /\ rpc' = "log"
  /\ UNCHANGED drift_vars
  /\ UNCHANGED prep_vars
  /\ UNCHANGED <<svc_pc, train_input, snapshot_file, model_file, model,
                 TRAIN_DF, request, response, served, lineage_log,
                 metrics_log, ref_steps, cur_steps>>

\* log_lineage(features.dict(), prob, model_version="v1") prints a record;
\* log_live_metrics(prob) logs to MLflow, or gives up quietly when MLflow
\* fails.
PredictLog ==
  /\ rpc = "log"
  /\ lineage_log' = Append(lineage_log, [inputs |-> request,
                                         prediction |-> prob,
                                         model_version |-> "v1"])
  /\ stdout' = Append(stdout, "Lineage")
  /\ \E logged \in BOOLEAN :
       metrics_log' = IF logged THEN Append(metrics_log, prob)
                      ELSE metrics_log
  /\ rpc' = "respond"
  /\ UNCHANGED <<reference_df, current_df, dpc, numeric_cols, col_idx,
                 drift_report, clean_report, d_result, d_error, report_file>>
  /\ UNCHANGED prep_vars
  /\ UNCHANGED <<svc_pc, train_input, snapshot_file, model_file, model,
                 TRAIN_DF, request, prob, response, served, ref_steps,
                 cur_steps>>

\* The threshold of the risk level, in units of 0.00001: 0.5.
RiskLimit == 50000

\* Mutant of RiskLevel: a probability of exactly 0.5 is "High" too.
RiskLevelFromHalf(p) == IF p >= RiskLimit THEN "High" ELSE "Low"

\* "High" if prob > 0.5 else "Low"
RiskLevel(p) == IF p > RiskLimit THEN "High" ELSE "Low"

\* return {"probability": prob, "risk_level": ..., ...}
PredictRespond ==
  /\ rpc = "respond"
  /\ response' = [status |-> 200, detail |-> "", probability |-> prob,
                  risk_level |-> RiskLevel(prob)]
  /\ rpc' = "idle"
  /\ UNCHANGED drift_vars
  /\ UNCHANGED prep_vars
  /\ UNCHANGED <<svc_pc, train_input, snapshot_file, model_file, model,
                 TRAIN_DF, request, prob, served, lineage_log, metrics_log,
                 ref_steps, cur_steps>>

\* Nothing is trained or started yet: a dataset is at hand and there is no
\* snapshot; a model of an earlier training may be there for load_model to
\* find.
InitService ==
  /\ svc_pc = "offline"
  /\ train_input \in TrainTables
  /\ snapshot_file = NoFile
  /\ model_file \in BOOLEAN
  /\ model = "None"
  /\ TRAIN_DF = NoTable
  /\ request = NoRequest
  /\ rpc = "idle"
  /\ prob = 0
  /\ response = NoResponse
  /\ served = 0
  /\ lineage_log = << >>
  /\ metrics_log = << >>
  /\ ref_steps = << >>
  /\ cur_steps = << >>
  /\ PrepIdle
  /\ DriftIdle

ServiceNext ==
  \/ AdHocPrepare
  \/ AdHocDone
  \/ DriftScript
  \/ TrainStart
  \/ TrainSnapshot
  \/ TrainFit
  \/ Startup
  \/ \E req \in RequestBodies : PredictReceive(req)
  \/ PredictCheck
  \/ PredictValidate
  \/ PredictDrift
  \/ PredictDriftDone
  \/ PredictInfer
  \/ PredictLog
  \/ PredictRespond
  \/ PrepCopy
  \/ PrepImpute
  \/ PrepDerive
  \/ PrepEncode
  \/ PrepNormalize
  \/ PrepReturn
  \/ \E i \in Calls :
       \/ DriftStart(i)
       \/ DriftColumn(i)
       \/ DriftClean(i)
       \/ DriftOpen(i)
       \/ DriftWrite(i)
       \/ DriftReturn(i)

\* A dataset is trained on, the API is started and serves /predict.
SpecService == InitService /\ [][ServiceNext]_vars

\* The steps of prepare_features with normalize false.
StepsWithoutNormalize ==
  <<"handle_missing_values", "add_derived_features", "encode_categoricals">>

\* C16: whenever detect_drift has been called, normalize_features was never
\* executed on the reference or on the current table; and when the call
\* comes from /predict, the reference table (the training snapshot) and the
\* current table (the request row) were each produced by a run of
\* prepare_features that executed exactly impute, derive, encode.
C16_DriftInputsNotNormalized ==
  \A i \in Calls :
    dpc[i] # "idle" =>
      /\ "normalize_features" \notin SeqRange(ref_steps) \cup SeqRange(cur_steps)
      /\ svc_pc = "serving" =>
            /\ ref_steps = StepsWithoutNormalize
            /\ cur_steps = StepsWithoutNormalize

\* Witness of C16: detect_drift is in its loop over the columns of a loaded
\* training snapshot, called by the /predict handler.
C16_DriftRunsOnSnapshot ==
  /\ rpc = "drift"
  /\ TRAIN_DF.loaded
  /\ reference_df = TRAIN_DF.table
  /\ dpc[1] = "loop" /\ col_idx[1] > 1

\* The columns of table t in the opposite order.
ReverseColumns(t) == [k \in DOMAIN t |-> t[Len(t) + 1 - k]]

\* C17: detect_drift is deterministic and column-independent: the report a
\* call returns is the one a repeated call on the same two tables returns,
\* whatever an earlier call left in the file; the entry of a column is the
\* whole report of a call on the two tables reduced to that column; and a
\* call on the tables with their columns in the opposite order returns the
\* same entries.
C17_DeterministicPerColumn ==
  \A i \in Calls :
    dpc[i] = "returned" =>
      /\ d_result[i] = DetectDriftAlone(reference_df, current_df[i]).report
      /\ \A e \in SeqRange(d_result[i]) :
           DetectDriftAlone(<<GetCol(reference_df, e.col)>>,
                            <<GetCol(current_df[i], e.col)>>).report = <<e>>
      /\ SeqRange(DetectDriftAlone(ReverseColumns(reference_df),
                                   ReverseColumns(current_df[i])).report)
           = SeqRange(d_result[i])

\* Witness of C17: a call has returned a report of two entries with
\* different psi values, and has saved it.
C17_TwoEntriesOverStaleFile ==
  \E i \in Calls :
    /\ dpc[i] = "returned"
    /\ Len(d_result[i]) = 2
    /\ d_result[i][1].psi # d_result[i][2].psi
    /\ stdout # << >>
    /\ report_file # << >>

\* The non-missing cells of column col of table t.
Present(t, col) == SelectSeq(GetCol(t, col).cells, LAMBDA x : x # NaN)

\* How often value v occurs in sequence s.
Occurrences(s, v) == Cardinality({k \in DOMAIN s : s[k] = v})

\* Two sequences hold the same values the same number of times.
SameMultiset(a, b) ==
  \A v \in SeqRange(a) \cup SeqRange(b) : Occurrences(a, v) = Occurrences(b, v)

\* C18: for every column of a returned report whose non-missing reference
\* values and non-missing current values are the same multiset, every
\* bucket has equal reference and current counts, psi is 0, the KS
\* statistic is 0, the p-value is 1.0 (100000 in units of 0.00001) and
\* drift_detected is false.
C18_IdenticalSamplesNoDrift ==
  \A i \in Calls :
    dpc[i] = "returned" =>
      \A e \in SeqRange(d_result[i]) :
        LET ref == Present(reference_df, e.col)
            cur == Present(current_df[i], e.col)
        IN  SameMultiset(ref, cur) =>
              /\ Histogram(ref, BinRange(ref)) = Histogram(cur, BinRange(ref))
              /\ e.psi = 0
              /\ e.ks_stat = 0
              /\ e.ks_pvalue = 100000
              /\ ~e.drift_detected

\* Witness of C18: a returned report has an entry for a column whose
\* current values are the reference values in another order, two distinct
\* values among them.
C18_SameValuesOtherOrder ==
  \E i \in Calls :
    /\ dpc[i] = "returned"
    /\ \E e \in SeqRange(d_result[i]) :
         LET ref == Present(reference_df, e.col)
             cur == Present(current_df[i], e.col)
         IN  /\ SameMultiset(ref, cur)
             /\ ref # cur
             /\ Cardinality(SeqRange(ref)) = 2

\* Every value of sample cur lies outside the value range of sample ref.
OutsideRange(cur, ref) ==
  \A j \in DOMAIN cur :
    \/ cur[j] < SetMin(SeqRange(ref))
    \/ cur[j] > SetMax(SeqRange(ref))

\* C19: for every numeric column with values on both sides whose current
\* values all lie outside the reference value range, a returned report has
\* an entry for the column with psi > 0.1 and drift_detected true.
C19_FullyShiftedFlagged ==
  \A i \in Calls :
    dpc[i] = "returned" =>
      \A col \in NumericNames(reference_df) :
        HasCol(current_df[i], col) =>
          LET ref == Present(reference_df, col)
              cur == Present(current_df[i], col)
          IN  (ref # <<>> /\ cur # <<>> /\ OutsideRange(cur, ref)) =>
                \E e \in SeqRange(d_result[i]) :
                  /\ e.col = col
                  /\ e.psi > PsiLimit
                  /\ e.drift_detected

\* The sum of the bucket terms for reference counts ec over n values and
\* current counts ac over m values.
TermsOver(ec, n, ac, m) ==
  SumSeq([k \in 1..Buckets |->
            PsiTerm(SmoothedPercent(ec[k], n), SmoothedPercent(ac[k], m))])

\* C20: psi takes its bucket edges from its first (reference) argument
\* only: the psi of every entry of a returned report is the sum of the
\* bucket terms over the counts both samples have within the range of the
\* reference values. The samples A, B whose per-bucket counts and psi
\* differ between psi(A, B) and psi(B, A) are those of C20_PsiNotSymmetric.
C20_EdgesFromReferenceOnly ==
  \A i \in Calls :
    dpc[i] = "returned" =>
      \A e \in SeqRange(d_result[i]) :
        LET A == Present(reference_df, e.col)
            B == Present(current_df[i], e.col)
            r == BinRange(A)
        IN  e.psi = TermsOver(Histogram(A, r), Len(A), Histogram(B, r), Len(B))

\* Witness of C20: a returned report has an entry for samples A (reference)
\* and B (current) whose bucket ranges differ, whose per-bucket counts
\* under the edges of A differ from those under the edges of B, and whose
\* psi(A, B) differs from psi(B, A).
C20_PsiNotSymmetric ==
  \E i \in Calls :
    /\ dpc[i] = "returned"
    /\ \E e \in SeqRange(d_result[i]) :
         LET A == Present(reference_df, e.col)
             B == Present(current_df[i], e.col)
         IN  /\ BinRange(A) # BinRange(B)
             /\ Histogram(A, BinRange(A)) # Histogram(A, BinRange(B))
             /\ Histogram(B, BinRange(A)) # Histogram(B, BinRange(B))
             /\ e.psi = Psi(A, B)
             /\ e.psi # Psi(B, A)

\* --------------------------------------------- the sign of a bucket term
\* The sign (-1, 0, 1) of an integer.
Sign(x) == IF x < 0 THEN -1 ELSE IF x > 0 THEN 1 ELSE 0

\* The exact sign of expected_percent - actual_percent for bucket counts ce
\* of n and ca of m, the percents being (ce + eps)/(n + eps) and
\* (ca + eps)/(m + eps) with eps = 1e-6. Over the common denominator the
\* difference is (ce*m - ca*n) + eps*(ce + m - ca - n); counts and sizes
\* are far below 1/eps, so the first non-zero coefficient decides.
PercentDiffSign(ce, n, ca, m) ==
  IF ce * m # ca * n THEN Sign(ce * m - ca * n)
  ELSE Sign(ce + m - ca - n)

\* The exact sign of np.log(expected_percent / actual_percent + 1e-6), which
\* is the sign of expected_percent - (1 - eps) * actual_percent: over the
\* common denominator (ce*m - ca*n) + eps*(ce + m - ca - n + ca*n)
\* + eps^2*(ca + n) + eps^3.
LogSign(ce, n, ca, m) ==
  IF ce * m # ca * n THEN Sign(ce * m - ca * n)
  ELSE IF ce + m - ca - n + ca * n # 0 THEN Sign(ce + m - ca - n + ca * n)
  ELSE 1

\* The exact sign of one bucket term
\* (expected_percent - actual_percent) * log(expected_percent / actual_percent + 1e-6).
PsiTermSign(ce, n, ca, m) == PercentDiffSign(ce, n, ca, m) * LogSign(ce, n, ca, m)

\* C21: for every entry of a returned report, every bucket term of psi is
\* non-negative, and so is the psi of the entry.
C21_PsiNonNegative ==
  \A i \in Calls :
    dpc[i] = "returned" =>
      \A e \in SeqRange(d_result[i]) :
        LET A  == Present(reference_df, e.col)
            B  == Present(current_df[i], e.col)
            r  == BinRange(A)
            ec == Histogram(A, r)
            ac == Histogram(B, r)
        IN  /\ \A k \in 1..Buckets :
                 PsiTermSign(ec[k], Len(A), ac[k], Len(B)) >= 0
            /\ e.psi >= 0

InvalidRequest == ~BodyComplete(request) \/ ~SchemaValid(request)

\* C23: a /predict request with invalid data, sent to a service whose model
\* and training snapshot are loaded, is answered with status 422, and the
\* handler never reaches feature engineering, drift detection, inference,
\* lineage logging or live-metric logging for it.
C23_InvalidDataRejected ==
  (served > 0 /\ InvalidRequest /\ model # "None" /\ TRAIN_DF.loaded) =>
    /\ rpc \in {"idle", "check", "validate"}
    /\ rpc = "idle" => response.status = 422
    /\ prob = 0
    /\ lineage_log = << >>
    /\ metrics_log = << >>

\* C24: in the /predict path, where the reference table is the training
\* snapshot and the current table is the engineered request row,
\* detect_drift does not raise, and the report it returns has an entry for
\* every numeric column the two tables share.
C24_PredictDriftCompletes ==
  (svc_pc = "serving" /\ rpc \in {"drift", "infer", "log", "respond"}) =>
    /\ dpc[1] # "raised"
    /\ dpc[1] = "returned" =>
         Keys(d_result[1]) = SharedNumeric(reference_df, current_df[1])

\* C25: in the psi of every entry of a returned report the reference
\* counts sum to the reference size, a current value is counted in a
\* bucket only if it lies within [min(reference), max(reference)], and the
\* current counts sum to at most the current size.
C25_BucketsFromReference ==
  \A i \in Calls :
    dpc[i] = "returned" =>
      \A e \in SeqRange(d_result[i]) :
        LET A  == Present(reference_df, e.col)
            B  == Present(current_df[i], e.col)
            r  == BinRange(A)
            ec == Histogram(A, r)
            ac == Histogram(B, r)
        IN  /\ SumSeq(ec) = Len(A)
            /\ \A j \in DOMAIN B :
                 BucketOf(B[j], r) # 0 =>
                   /\ B[j] >= SetMin(SeqRange(A))
                   /\ B[j] <= SetMax(SeqRange(A))
            /\ SumSeq(ac) <= Len(B)

\* Table t has a missing cell.
AnyMissing(t) == \E k \in DOMAIN t : NaN \in SeqRange(t[k].cells)

\* C26: no step of a detect_drift call, whether the call goes on to return
\* or to raise, changes the reference table or the call's current table:
\* columns, rows and cells, missing ones included, stay as they were.
C26_InputsUnchanged ==
  [][\A i \in Calls :
       dpc[i] # "idle" =>
         /\ reference_df' = reference_df
         /\ current_df'[i] = current_df[i]]_vars

\* Witness of C26: a call over two tables with missing cells has raised
\* after it recorded an entry.
C26_RaisedAfterEntry ==
  \E i \in Calls :
    /\ dpc[i] = "raised"
    /\ drift_report[i] # << >>
    /\ AnyMissing(reference_df)
    /\ AnyMissing(current_df[i])

\* C27: a failure of drift detection never fails a prediction request:
\* when detect_drift has ended inside /predict, raising or not, the handler
\* goes on to inference with no response sent, then logs the lineage record
\* of the request and calls the live-metric logging, then answers with
\* status 200 and the probability and risk level of the model's output.
C27_DriftFailureNotFatal ==
  [][/\ (rpc = "drift" /\ rpc' # "drift") =>
          /\ rpc' = "infer"
          /\ response' = response
     /\ (rpc = "infer" /\ rpc' # "infer") => rpc' = "log"
     /\ (rpc = "log" /\ rpc' # "log") =>
          /\ rpc' = "respond"
          /\ lineage_log' = Append(lineage_log,
                                   [inputs |-> request, prediction |-> prob,
                                    model_version |-> "v1"])
          /\ metrics_log' \in {metrics_log, Append(metrics_log, prob)}
     /\ (rpc = "respond" /\ rpc' # "respond") =>
          response' = [status |-> 200, detail |-> "", probability |-> prob,
                       risk_level |-> RiskLevel(prob)]]_vars

\* Witness of C27: a request whose detect_drift call raised was answered
\* with status 200 after the warning was printed and the lineage logged.
C27_AnsweredAfterDriftRaised ==
  /\ svc_pc = "serving"
  /\ dpc[1] = "raised"
  /\ "Drift detection warning" \in SeqRange(stdout)
  /\ response.status = 200
  /\ Len(lineage_log) = 1

\* C28: when overlapping invocations of detect_drift that write the same
\* save_path have all returned, the file holds exactly the complete
\* serialized report of one of them, in every interleaving.
C28_FileHoldsOneReport ==
  (\A i \in Calls : dpc[i] = "returned") =>
    \E i \in Calls : report_file = JsonDumps(d_result[i])

\* The model or the training snapshot is not loaded.
NotLoaded == model = "None" \/ ~TRAIN_DF.loaded

\* What a /predict request may change besides its own response: the
\* globals, the files, the logs, the console and the two pipelines.
ServiceState ==
  <<model, TRAIN_DF, snapshot_file, model_file, lineage_log, metrics_log,
    report_file, stdout, prep_vars, reference_df, current_df, dpc,
    drift_report, d_result>>

\* C29 as stated: when the model or the training snapshot is not loaded,
\* every /predict request that has been answered was answered with status
\* 503, and no lineage or metric was logged.
C29_EveryRequest503 ==
  (svc_pc = "serving" /\ served > 0 /\ rpc = "idle" /\ NotLoaded) =>
    /\ response.status = 503
    /\ lineage_log = << >>
    /\ metrics_log = << >>

\* C29, amended: when the model or the training snapshot is not loaded,
\* every /predict request whose body parses into PatientFeatures is
\* answered with status 503 by the first statements of predict_risk,
\* before schema validation, feature engineering, drift detection,
\* inference or logging, and handling it leaves the service state
\* unchanged.
C29_ParsedRequest503 ==
  /\ []((svc_pc = "serving" /\ served > 0 /\ NotLoaded
         /\ BodyComplete(request)) =>
          /\ rpc \in {"check", "idle"}
          /\ rpc = "idle" => response.status = 503
          /\ prob = 0
          /\ lineage_log = << >>
          /\ metrics_log = << >>)
  /\ [][(svc_pc = "serving" /\ NotLoaded) =>
          ServiceState' = ServiceState]_vars

\* Witness of C29: with no model loaded, a request whose heart rate lies
\* outside the schema's range was answered with status 503.
C29_Unloaded503BeforeValidation ==
  /\ svc_pc = "serving"
  /\ model = "None"
  /\ served > 0
  /\ BodyComplete(request)
  /\ ~SchemaValid(request)
  /\ rpc = "idle"
  /\ response.status = 503

\* C30: after startup, whichever load failed, the model and the training
\* snapshot are both loaded or both absent: /health reports model_loaded
\* equal to training_data_loaded, and no request is answered by the
\* "Training data not loaded" branch of /predict.
C30_LoadedTogether ==
  /\ (model = "None") <=> ~TRAIN_DF.loaded
  /\ HealthCheck.model_loaded = HealthCheck.training_data_loaded
  /\ response.detail # "Training data not loaded"

\* Witness of C30: the service was started with a model to load and no
\* snapshot to read, and has answered a request with status 503 for the
\* model being absent.
C30_ModelFoundSnapshotMissing ==
  /\ svc_pc = "serving"
  /\ model_file
  /\ ~snapshot_file.exists
  /\ model = "None"
  /\ ~HealthCheck.training_data_loaded
  /\ response.status = 503
  /\ response.detail = "Model not loaded"

====
